---- MODULE Spec2Model ----
(***************************************************************************)
(* Permission authority (PermissionManager), escalation gate               *)
(* (GuardianAgent.validateAction), audit log and the orchestrator's task   *)
(* creation of the Nexus browser agent.                                    *)
(*                                                                         *)
(* Time is counted in minutes (60000 ms).  Strings that the code matches   *)
(* with regular expressions or String.includes are sequences of tokens: a  *)
(* word, or a single character (separator, plural s).                      *)
(***************************************************************************)
EXTENDS Integers, Sequences, FiniteSets, TLC

VARIABLES
    now,        \* Date.now(), in minutes
    policy,     \* PermissionManager.policy
    handler,    \* PermissionManager.escalationHandler !== null
    grants,     \* PermissionManager.grants, in Map insertion order
    audit,      \* AuditStore.entries
    pending,    \* requestPermission calls suspended on the escalation handler
    last,       \* what the most recent operation returned (history)
    spent,      \* per grant: how many check() calls returned it (history)
    workflows,  \* every Workflow object processUserInput has created
    workflow,   \* Orchestrator.workflow: an index of workflows, 0 for null
    runs,       \* the executions of processUserInput that were admitted
    currentPageContext,     \* Orchestrator.currentPageContext
    currentTask,    \* per worker: BaseAgent.currentTask, as a task id
    concern,    \* GuardianAgent: concern level and the two counters
    nextId,     \* what makes the next generateId() differ from the others
    sidebarPort,    \* MessageRouter.sidebarPort !== null
    pendingRequests \* usePermissions: the requestIds of the prompts shown

permVars == <<now, policy, handler, grants, audit, pending, last, spent>>

orchVars ==
    <<workflows, workflow, runs, currentPageContext, currentTask, concern,
      nextId>>

uiVars == <<sidebarPort, pendingRequests>>

vars == <<permVars, orchVars, uiVars>>

(***************************************************************************)
(* Bounds of the model.                                                    *)
(***************************************************************************)
MaxNow == 3
MaxStoreNow == 2
MaxGrants == 2
MaxRoundTripGrants == 1
MaxAudit == 2
MaxStoreAudit == 1
MaxEscalateAudit == 4
MaxPending == 1
MaxSubtasks == 2
MaxRuns == 2
MaxScheduleTasks == 3
MaxWorkerTasks == 3
MaxWorkerAudit == 3
MaxWorkerGrants == 2
MaxWorkerPending == 2
MaxTimeoutIds == 5
MaxScopeGrants == 2
MaxAuditCalls == 1003
MaxConcernIds == 3
MaxConcernAudit == 2
MaxConcernGrants == 1
MaxResponseIds == 3
MaxResponseGrants == 2
MaxResponseAudit == 4
MaxSidebarIds == 3
MaxSidebarAudit == 6
MaxSidebarGrants == 2
MaxCauseAudit == 3
MaxCauseGrants == 2
MaxDenyAudit == 2
MaxDenyGrants == 2
MaxDenyNow == 2
MaxReviveGrants == 1
MaxReviveAudit == 1
MaxReviveNow == 3

(***************************************************************************)
(* PermissionLevel, PermissionScope, AgentRole.                            *)
(***************************************************************************)
READ_ONLY == 0
NAVIGATE == 1
INTERACT == 2
SUBMIT == 3
PURCHASE == 4

PermissionLevel == READ_ONLY..PURCHASE

PermissionScope == {"global", "task", "site", "task_site"}

AgentRole == {"orchestrator", "navigator", "researcher", "memory", "guardian"}

\* An optional field that is undefined.  revokedAt is read through its
\* truthiness (!g.revokedAt), so an unset revokedAt is the falsy number.
Unset == 0
Undefined == "undefined"

(***************************************************************************)
(* Strings the code matches: action descriptions and the entries of        *)
(* blockedActions.  Tokens gives a string's token sequence.                *)
(***************************************************************************)
Tokens(str) ==
    CASE str = "click checkout button" ->
            <<"click", " ", "checkout", " ", "button">>
      [] str = "auto-submit payment to card ending 1234" ->
            <<"auto", "-", "submit", " ", "payment", " ", "to", " ", "card",
              " ", "ending", " ", "1234">>
      [] str = "ACCESS_PASSWORD_FIELDS" ->
            <<"ACCESS", "_", "PASSWORD", "_", "FIELDS">>
      [] str = "access_password_fields" ->
            <<"access", "_", "password", "_", "fields">>
      [] str = "modify_security_settings" ->
            <<"modify", "_", "security", "_", "settings">>
      [] str = "auto_submit_payments" ->
            <<"auto", "_", "submit", "_", "payment", "s">>
      [] str = "access_banking_credentials" ->
            <<"access", "_", "banking", "_", "credentials">>
      [] str = "modify_account_settings" ->
            <<"modify", "_", "account", "_", "settings">>
      [] str = "delete_user_data" ->
            <<"delete", "_", "user", "_", "data">>
      [] str = "download_executables" ->
            <<"download", "_", "executable", "s">>
      [] str = "grant_third_party_access" ->
            <<"grant", "_", "third", "_", "party", "_", "access">>
      [] OTHER -> <<>>

\* The strings of the model: the action descriptions workers send, and the
\* entries of blockedActions.
ActionTexts ==
    {"", "click checkout button", "auto-submit payment to card ending 1234",
     "ACCESS_PASSWORD_FIELDS"}

BlockTexts ==
    {"access_password_fields", "modify_security_settings",
     "auto_submit_payments", "access_banking_credentials",
     "modify_account_settings", "delete_user_data", "download_executables",
     "grant_third_party_access"}

\* The tokens that are a single character.
Chars == {" ", "-", "_", "s"}

\* String.toLowerCase, token by token.
toLowerCase(txt) ==
    [i \in 1..Len(txt) |->
        CASE txt[i] = "ACCESS" -> "access"
          [] txt[i] = "PASSWORD" -> "password"
          [] txt[i] = "FIELDS" -> "fields"
          [] OTHER -> txt[i]]

\* The element .? of a pattern.
Opt == "<.?>"

\* Whether pattern pat matches txt from position i on.
RECURSIVE MatchAt(_, _, _)
MatchAt(pat, txt, i) ==
    IF pat = <<>> THEN TRUE
    ELSE IF Head(pat) = Opt
         THEN \/ MatchAt(Tail(pat), txt, i)
              \/ /\ i <= Len(txt)
                 /\ txt[i] \in Chars
                 /\ MatchAt(Tail(pat), txt, i + 1)
         ELSE /\ i <= Len(txt)
              /\ txt[i] = Head(pat)
              /\ MatchAt(Tail(pat), txt, i + 1)

\* RegExp.test with the flag i: the pattern matches somewhere in the text,
\* whatever the case.
RegexTest(pat, txt) ==
    \E i \in 1..(Len(txt) + 1) : MatchAt(pat, toLowerCase(txt), i)

\* String.includes: needle is a contiguous part of hay, compared exactly.
Includes(hay, needle) ==
    \E i \in 0..(Len(hay) - Len(needle)) :
        \A j \in 1..Len(needle) : hay[i + j] = needle[j]

WONT_DO_PATTERNS == {
    <<"auto", Opt, "submit", Opt, "payment">>,
    <<"enter", Opt, "credit", Opt, "card">>,
    <<"enter", Opt, "bank">>,
    <<"transfer", Opt, "funds">>,
    <<"wire", Opt, "money">>,
    <<"change", Opt, "password">>,
    <<"modify", Opt, "security">>,
    <<"disable", Opt, "2fa">>,
    <<"disable", Opt, "mfa">>,
    <<"disable", Opt, "two", Opt, "factor">>,
    <<"grant", Opt, "admin">>,
    <<"delete", Opt, "account">>,
    <<"share", Opt, "personal", Opt, "data">>,
    <<"export", Opt, "contacts">>,
    <<"access", Opt, "medical">>,
    <<"read", Opt, "private", Opt, "messages">>,
    <<"download", Opt, "executable">>,
    <<"run", Opt, "script">>,
    <<"install", Opt, "extension">> }

\* WONT_DO_PATTERNS.some((pattern) => pattern.test(action)), per text.
WontDoTable ==
    [a \in ActionTexts |->
        \E pat \in WONT_DO_PATTERNS : RegexTest(pat, Tokens(a))]

isWontDo(action) == WontDoTable[action]

(***************************************************************************)
(* DEFAULT_POLICY.                                                         *)
(***************************************************************************)
DefaultCeilings ==
    [a \in AgentRole |->
        CASE a = "orchestrator" -> NAVIGATE
          [] a = "navigator" -> INTERACT
          [] a = "researcher" -> NAVIGATE
          [] a = "memory" -> READ_ONLY
          [] a = "guardian" -> READ_ONLY]

DefaultTTL ==
    [l \in PermissionLevel |->
        CASE l = READ_ONLY -> 30
          [] l = NAVIGATE -> 10
          [] l = INTERACT -> 5
          [] l = SUBMIT -> 2
          [] l = PURCHASE -> 1]

DefaultBlockedActions == {
    "access_password_fields",
    "modify_security_settings",
    "auto_submit_payments",
    "access_banking_credentials",
    "modify_account_settings",
    "delete_user_data",
    "download_executables",
    "grant_third_party_access" }

DEFAULT_POLICY ==
    [agentCeilings |-> DefaultCeilings,
     defaultTTL |-> DefaultTTL,
     alwaysAskLevels |-> {SUBMIT, PURCHASE},
     blockedActions |-> DefaultBlockedActions]

\* action.toLowerCase().includes(blocked.toLowerCase()), per pair.
IncludesLowerTable ==
    [a \in ActionTexts, b \in BlockTexts |->
        Includes(toLowerCase(Tokens(a)), toLowerCase(Tokens(b)))]

\* action.toLowerCase().includes(b), per pair.
IncludesTable ==
    [a \in ActionTexts, b \in BlockTexts |->
        Includes(toLowerCase(Tokens(a)), Tokens(b))]

\* PermissionManager.isBlocked: both sides lowercased.
isBlocked(pol, action) ==
    \E b \in pol.blockedActions : IncludesLowerTable[action, b]

\* validateAction step 2: DEFAULT_POLICY's list, only the action lowercased.
isPolicyBlocked(action) ==
    \E b \in DEFAULT_POLICY.blockedActions : IncludesTable[action, b]

(***************************************************************************)
(* AuditStore.                                                             *)
(***************************************************************************)
MAX_ENTRIES == 1000

AuditEntry(agent, action, target, level, outcome, grantId) ==
    [agent |-> agent, action |-> action, target |-> target,
     permissionLevel |-> level, outcome |-> outcome,
     permissionGrantId |-> grantId]

\* An AuditStore.log that trims to the first MAX_ENTRIES.
AuditLogKeepOldest(entries, e) ==
    LET pushed == Append(entries, e)
    IN  IF Len(pushed) > MAX_ENTRIES
        THEN SubSeq(pushed, 1, MAX_ENTRIES)
        ELSE pushed

\* AuditStore.log: push, then trim to the last MAX_ENTRIES.
AuditLog(entries, e) ==
    LET pushed == Append(entries, e)
    IN  IF Len(pushed) > MAX_ENTRIES
        THEN SubSeq(pushed, Len(pushed) - MAX_ENTRIES + 1, Len(pushed))
        ELSE pushed

LogRequest(entries, req, outcome, grantId) ==
    AuditLog(entries,
             AuditEntry(req.agent, req.action, req.domain, req.level, outcome, grantId))

(***************************************************************************)
(* PermissionManager: the grant store.                                     *)
(***************************************************************************)
\* grant(): duration is <<>> (undefined) or <<d>>; the id is fresh.
NewGrant(gs, pol, t, level, agent, scope, taskId, domain, duration, singleUse) ==
    LET ttl == IF duration = <<>> THEN pol.defaultTTL[level] ELSE duration[1]
    IN  [id |-> Len(gs) + 1,
         level |-> level,
         agent |-> agent,
         scope |-> scope,
         grantedAt |-> t,
         expiresAt |-> t + ttl,
         taskId |-> taskId,
         domain |-> domain,
         singleUse |-> singleUse,
         used |-> FALSE,
         revokedAt |-> Unset]

GrantOp(gs, pol, t, level, agent, scope, taskId, domain, duration, singleUse) ==
    Append(gs, NewGrant(gs, pol, t, level, agent, scope, taskId, domain,
                        duration, singleUse))

\* A revoke that gives a revoked grant back.
RevokeOpToggling(gs, t, grantId) ==
    [i \in 1..Len(gs) |->
        IF gs[i].id = grantId
        THEN [gs[i] EXCEPT !.revokedAt = IF @ = Unset THEN t ELSE Unset]
        ELSE gs[i]]

\* revoke(grantId): the grant's revokedAt becomes now.
RevokeOp(gs, t, grantId) ==
    [i \in 1..Len(gs) |->
        IF gs[i].id = grantId THEN [gs[i] EXCEPT !.revokedAt = t] ELSE gs[i]]

\* revokeAll(agent?): agent = Undefined revokes every grant.
RevokeAllOp(gs, t, agent) ==
    [i \in 1..Len(gs) |->
        IF agent = Undefined \/ gs[i].agent = agent
        THEN [gs[i] EXCEPT !.revokedAt = t] ELSE gs[i]]

RevokeForTaskOp(gs, t, taskId) ==
    [i \in 1..Len(gs) |->
        IF gs[i].taskId = taskId
        THEN [gs[i] EXCEPT !.revokedAt = t] ELSE gs[i]]

\* A cleanExpired that stamps every grant that is not revoked, expired or
\* not.
cleanExpiredAll(gs, t) ==
    [i \in 1..Len(gs) |->
        IF gs[i].revokedAt = Unset
        THEN [gs[i] EXCEPT !.revokedAt = t] ELSE gs[i]]

\* cleanExpired: every grant that has expired and is not revoked gets
\* revokedAt = now.
cleanExpired(gs, t) ==
    [i \in 1..Len(gs) |->
        IF gs[i].expiresAt <= t /\ gs[i].revokedAt = Unset
        THEN [gs[i] EXCEPT !.revokedAt = t] ELSE gs[i]]

\* The filter of findGrant without the test of revokedAt.
IsCandidateIgnoringRevoked(g, agent, level, t) ==
    /\ g.agent = agent
    /\ g.level >= level
    /\ g.expiresAt > t
    /\ ~(g.singleUse /\ g.used)

\* The filter of findGrant with the levels compared strictly.
IsCandidateStrictLevel(g, agent, level, t) ==
    /\ g.agent = agent
    /\ g.level > level
    /\ g.revokedAt = Unset
    /\ g.expiresAt > t
    /\ ~(g.singleUse /\ g.used)

\* The filter of findGrant.
IsCandidate(g, agent, level, t) ==
    /\ g.agent = agent
    /\ g.level >= level
    /\ g.revokedAt = Unset
    /\ g.expiresAt > t
    /\ ~(g.singleUse /\ g.used)

\* Array.find: the first index of a set of indices, 0 when there is none.
First(S) == IF S = {} THEN 0 ELSE CHOOSE i \in S : \A j \in S : i <= j

\* A findGrant that returns the first active grant that covers the
\* request, whatever its scope.
findGrantFirstFit(gs, agent, level, domain, taskId, t) ==
    First({i \in 1..Len(gs) :
              /\ IsCandidate(gs[i], agent, level, t)
              /\ \/ gs[i].scope = "global"
                 \/ gs[i].scope = "task" /\ gs[i].taskId = taskId
                 \/ gs[i].scope = "site" /\ gs[i].domain = domain
                 \/ /\ gs[i].scope = "task_site"
                    /\ gs[i].taskId = taskId
                    /\ gs[i].domain = domain})

\* A findGrant that looks at the scope of a grant but not at the task and
\* the site it was made for.
findGrantIgnoringTarget(gs, agent, level, domain, taskId, t) ==
    LET active == {i \in 1..Len(gs) : IsCandidate(gs[i], agent, level, t)}
        ts == First({i \in active : gs[i].scope = "task_site"})
        tk == First({i \in active : gs[i].scope = "task"})
        st == First({i \in active : gs[i].scope = "site"})
        gl == First({i \in active : gs[i].scope = "global"})
    IN  IF ts # 0 THEN ts
        ELSE IF tk # 0 THEN tk
        ELSE IF st # 0 THEN st
        ELSE gl

\* findGrant: index of the matching grant, 0 for undefined.
\* Priority: task+site > task > site > global.
findGrant(gs, agent, level, domain, taskId, t) ==
    LET active == {i \in 1..Len(gs) : IsCandidate(gs[i], agent, level, t)}
        ts == First({i \in active : /\ gs[i].scope = "task_site"
                                    /\ gs[i].taskId = taskId
                                    /\ gs[i].domain = domain})
        tk == First({i \in active : gs[i].scope = "task" /\ gs[i].taskId = taskId})
        st == First({i \in active : gs[i].scope = "site" /\ gs[i].domain = domain})
        gl == First({i \in active : gs[i].scope = "global"})
    IN  IF ts # 0 THEN ts
        ELSE IF tk # 0 THEN tk
        ELSE IF st # 0 THEN st
        ELSE gl

\* Step 1 of check(): the agent ceiling.
AboveCeiling(pol, agent, level) == level > pol.agentCeilings[agent]

\* check() that leaves a matched single-use grant unmarked.
MarkUsedNever(gs, i) == gs

\* The grant store after check() matched grant number i.
MarkUsed(gs, i) ==
    IF gs[i].singleUse THEN [gs EXCEPT ![i].used = TRUE] ELSE gs

\* A check() that offers an escalation above the ceiling as well.
checkEscalatingAboveCeiling(pol, gs, t, agent, level, domain, taskId) ==
    LET cleaned == cleanExpired(gs, t)
        i == findGrant(cleaned, agent, level, domain, taskId, t)
    IN  IF i # 0
        THEN [allowed |-> TRUE, grantId |-> cleaned[i].id,
              needsEscalation |-> FALSE, escalation |-> FALSE,
              grants |-> MarkUsed(cleaned, i)]
        ELSE [allowed |-> FALSE, grantId |-> 0,
              needsEscalation |-> \/ level \in pol.alwaysAskLevels
                                  \/ level > READ_ONLY,
              escalation |-> TRUE, grants |-> cleaned]

\* check(): the result and the grant store it leaves.  grantId = 0 and
\* escalation = FALSE stand for the absent fields.
check(pol, gs, t, agent, level, domain, taskId) ==
    IF AboveCeiling(pol, agent, level)
    THEN [allowed |-> FALSE, grantId |-> 0, needsEscalation |-> FALSE,
          escalation |-> FALSE, grants |-> gs]
    ELSE LET cleaned == cleanExpired(gs, t)
             i == findGrant(cleaned, agent, level, domain, taskId, t)
         IN  IF i # 0
             THEN [allowed |-> TRUE, grantId |-> cleaned[i].id,
                   needsEscalation |-> FALSE, escalation |-> FALSE,
                   grants |-> MarkUsed(cleaned, i)]
             ELSE [allowed |-> FALSE, grantId |-> 0,
                   needsEscalation |-> \/ level \in pol.alwaysAskLevels
                                       \/ level > READ_ONLY,
                   escalation |-> TRUE, grants |-> cleaned]

(***************************************************************************)
(* requestPermission and validateAction, as functions of the state they    *)
(* read.  Each yields the grant store and audit log it leaves, whether the *)
(* call is suspended on the escalation handler, and what it returns.       *)
(*   via      the branch that decided                                      *)
(*   grantId  the grant in the result (0: none)                            *)
(*   matched  the grant check() returned (0: none)                         *)
(***************************************************************************)
Outcome(gs, au, suspended, allowed, via, grantId, matched) ==
    [grants |-> gs, audit |-> au, suspended |-> suspended,
     allowed |-> allowed, via |-> via, grantId |-> grantId,
     matched |-> matched]

\* requestPermission up to the await of the escalation handler.
requestPermission(pol, h, gs, au, t, req) ==
    LET existing == check(pol, gs, t, req.agent, req.level, req.domain, req.taskId)
    IN  IF existing.allowed
        THEN Outcome(existing.grants,
                     LogRequest(au, req, "allowed", existing.grantId),
                     FALSE, TRUE, "grant", existing.grantId, existing.grantId)
        ELSE IF isBlocked(pol, req.action)
        THEN Outcome(existing.grants, LogRequest(au, req, "blocked", 0),
                     FALSE, FALSE, "blocked", 0, 0)
        ELSE IF req.level <= NAVIGATE /\ req.level \notin pol.alwaysAskLevels
        THEN LET gs2 == GrantOp(existing.grants, pol, t, req.level, req.agent,
                                "task_site", req.taskId, req.domain,
                                <<pol.defaultTTL[req.level]>>, FALSE)
             IN  Outcome(gs2, LogRequest(au, req, "allowed", Len(gs2)),
                         FALSE, TRUE, "auto", Len(gs2), 0)
        ELSE IF h /\ existing.escalation
        THEN Outcome(existing.grants, LogRequest(au, req, "escalated", 0),
                     TRUE, FALSE, "escalated", 0, 0)
        ELSE Outcome(existing.grants, LogRequest(au, req, "denied", 0),
                     FALSE, FALSE, "denied", 0, 0)

\* requestPermission that grants the default duration, whatever the
\* approver chose.
resumePermissionDefaultTTL(pol, gs, au, t, req, resp) ==
    IF resp.approved
    THEN LET gs2 == GrantOp(gs, pol, t, req.level, req.agent, "task_site",
                            req.taskId, req.domain, <<>>, resp.singleUse)
         IN  Outcome(gs2, LogRequest(au, req, "allowed", Len(gs2)),
                     FALSE, TRUE, "approved", Len(gs2), 0)
    ELSE Outcome(gs, LogRequest(au, req, "denied", 0),
                 FALSE, FALSE, "denied", 0, 0)

\* requestPermission that answers an approval with a grant for every task
\* and site.
resumePermissionGlobal(pol, gs, au, t, req, resp) ==
    IF resp.approved
    THEN LET gs2 == GrantOp(gs, pol, t, req.level, req.agent, "global",
                            Undefined, Undefined, resp.duration,
                            resp.singleUse)
         IN  Outcome(gs2, LogRequest(au, req, "allowed", Len(gs2)),
                     FALSE, TRUE, "approved", Len(gs2), 0)
    ELSE Outcome(gs, LogRequest(au, req, "denied", 0),
                 FALSE, FALSE, "denied", 0, 0)

\* requestPermission after the escalation handler resolved with resp.
resumePermission(pol, gs, au, t, req, resp) ==
    IF resp.approved
    THEN LET gs2 == GrantOp(gs, pol, t, req.level, req.agent, "task_site",
                            req.taskId, req.domain, resp.duration, resp.singleUse)
         IN  Outcome(gs2, LogRequest(au, req, "allowed", Len(gs2)),
                     FALSE, TRUE, "approved", Len(gs2), 0)
    ELSE Outcome(gs, LogRequest(au, req, "denied", 0),
                 FALSE, FALSE, "denied", 0, 0)

\* validateAction without its steps 1 to 3: the Gate hands every request
\* straight to the manager.
validateActionUnguarded(pol, h, gs, au, t, req) ==
    requestPermission(pol, h, gs, au, t, req)

\* GuardianAgent.validateAction up to the await inside escalateToUser.
validateAction(pol, h, gs, au, t, req) ==
    IF isWontDo(req.action)
    THEN Outcome(gs, LogRequest(au, req, "blocked", 0),
                 FALSE, FALSE, "wontdo", 0, 0)
    ELSE IF isPolicyBlocked(req.action)
    THEN Outcome(gs, LogRequest(au, req, "blocked", 0),
                 FALSE, FALSE, "blocked", 0, 0)
    ELSE IF req.level > DEFAULT_POLICY.agentCeilings[req.agent]
    THEN Outcome(gs, LogRequest(au, req, "denied", 0),
                 FALSE, FALSE, "ceiling", 0, 0)
    ELSE LET chk == check(pol, gs, t, req.agent, req.level, req.domain, req.taskId)
         IN  IF chk.allowed /\ chk.grantId # 0
             THEN Outcome(chk.grants, LogRequest(au, req, "allowed", chk.grantId),
                          FALSE, TRUE, "grant", chk.grantId, chk.grantId)
             ELSE IF chk.needsEscalation /\ chk.escalation
             THEN requestPermission(pol, h, chk.grants,
                                    LogRequest(au, req, "escalated", 0), t, req)
             ELSE Outcome(chk.grants, LogRequest(au, req, "denied", 0),
                          FALSE, FALSE, "denied", 0, 0)

(***************************************************************************)
(* History: what the latest operation returned.                            *)
(*   op         the entry point that returned; "suspended" when the call   *)
(*              handed its escalation to the handler and awaits the answer *)
(*   callbacks  how often this call invoked the escalation handler         *)
(*   resp       the approver's answer, for a call that was suspended       *)
(***************************************************************************)
(***************************************************************************)
(* GuardianAgent: concern tracking.                                        *)
(***************************************************************************)
\* ConcernLevel, in the order raiseConcern compares.
ConcernLevels == <<"none", "low", "moderate", "high", "critical">>

\* The position of a level in ConcernLevels, from 0.
ConcernIndex(level) ==
    (CHOOSE k \in DOMAIN ConcernLevels : ConcernLevels[k] = level) - 1

\* The Guardian's concern state after construction.
NoConcern ==
    [level |-> "none", permissionDenialCount |-> 0, consecutiveFailures |-> 0]

\* raiseConcern: the level is raised, never lowered.
raiseConcern(c, level) ==
    IF ConcernIndex(level) > ConcernIndex(c.level)
    THEN [c EXCEPT !.level = level]
    ELSE c

\* What Echo Archaeology finds in an input: nothing, or a ghost that
\* raises the concern to a level.
NoGhost == "none"

\* assessUserInput: a ghost raises the concern; after a long silence the
\* concern is reset.
assessUserInput(c, ghost, silent) ==
    LET raised == IF ghost = NoGhost THEN c ELSE raiseConcern(c, ghost)
    IN  IF silent THEN [raised EXCEPT !.level = "none"] ELSE raised

\* recordWorkflowOutcome.
recordWorkflowOutcome(c, success) ==
    IF ~success
    THEN LET counted == [c EXCEPT !.consecutiveFailures = @ + 1]
         IN  IF counted.consecutiveFailures >= 2
             THEN raiseConcern(counted, "moderate")
             ELSE counted
    ELSE [c EXCEPT !.consecutiveFailures = 0,
                   !.level = IF @ # "none" THEN "low" ELSE @]

\* A validateAction that refuses everything while the concern is high.
validateActionConcerned(c, pol, h, gs, au, t, req) ==
    IF ConcernIndex(c.level) >= 3
    THEN Outcome(gs, LogRequest(au, req, "denied", 0), FALSE, FALSE, "denied", 0, 0)
    ELSE validateAction(pol, h, gs, au, t, req)

\* validateAction, called on a Guardian whose concern state is c.
validateActionIn(c, pol, h, gs, au, t, req) ==
    validateAction(pol, h, gs, au, t, req)

\* requestPermission, called while the Guardian's concern state is c.
requestPermissionIn(c, pol, h, gs, au, t, req) ==
    requestPermission(pol, h, gs, au, t, req)

\* prefix_<time>_<random>: n stands for the part that makes the id unique.
generateId(prefix, n) == prefix \o "_" \o ToString(n)

Request(agent, level, domain, taskId, action) ==
    [agent |-> agent, level |-> level, domain |-> domain, taskId |-> taskId,
     action |-> action]

Response(approved, duration, singleUse) ==
    [approved |-> approved, duration |-> duration, singleUse |-> singleUse]

NoRequest == Request(Undefined, READ_ONLY, Undefined, Undefined, "")

NoResponse == Response(FALSE, <<>>, FALSE)

Returned(op, req, allowed, via, grantId, needsEscalation, callbacks, resp) ==
    [op |-> op, req |-> req, allowed |-> allowed, via |-> via,
     grantId |-> grantId, needsEscalation |-> needsEscalation,
     callbacks |-> callbacks, resp |-> resp]

NoResult == Returned("none", NoRequest, FALSE, "none", 0, FALSE, 0, NoResponse)

\* spent after check() returned grant number matched and the store grew to n.
Spend(sp, matched, n) ==
    [i \in 1..n |->
        IF i > Len(sp) THEN 0
        ELSE IF i = matched /\ sp[i] < 2 THEN sp[i] + 1
        ELSE sp[i]]

\* The escalation handler's sendToSidebar(PERMISSION_REQUEST, escalation):
\* posted if a sidebar is connected, and then appended by usePermissions.
Prompted(port, reqs, suspended, requestId) ==
    IF suspended /\ port THEN Append(reqs, requestId) ELSE reqs

\* The state after a call of an entry point that yielded out.  A suspended
\* call keeps how many audit entries it has logged so far (history), and
\* the requestId of the escalation it handed to the handler.
Decide(op, req, out) ==
    /\ grants' = out.grants
    /\ audit' = out.audit
    /\ spent' = Spend(spent, out.matched, Len(out.grants))
    /\ pending' = IF out.suspended
                  THEN Append(pending,
                              [req |-> req, op |-> op,
                               logged |-> Len(out.audit) - Len(audit),
                               worker |-> <<>>,
                               requestId |-> generateId("esc", nextId)])
                  ELSE pending
    /\ nextId' = IF out.suspended THEN nextId + 1 ELSE nextId
    /\ pendingRequests' = Prompted(sidebarPort, pendingRequests, out.suspended,
                                   generateId("esc", nextId))
    /\ last' = Returned(IF out.suspended THEN "suspended" ELSE op, req,
                        out.allowed, out.via, out.grantId, FALSE,
                        IF out.suspended THEN 1 ELSE 0, NoResponse)

(***************************************************************************)
(* Operations.                                                             *)
(***************************************************************************)
RequestPermission(req) ==
    /\ Len(pending) < MaxPending
    /\ Decide("requestPermission", req,
              requestPermissionIn(concern, policy, handler, grants, audit, now,
                                  req))
    /\ UNCHANGED <<now, policy, handler, workflows, workflow, runs,
                   currentPageContext, currentTask, concern, sidebarPort>>

ValidateAction(req) ==
    /\ Len(pending) < MaxPending
    /\ Decide("validateAction", req,
              validateActionIn(concern, policy, handler, grants, audit, now,
                               req))
    /\ UNCHANGED <<now, policy, handler, workflows, workflow, runs,
                   currentPageContext, currentTask, concern, sidebarPort>>

\* A router that keeps the resolver of an escalation it has resolved.
ResolvedKept(pend, i) == pend

\* The router's _pendingPermissions after the resolver of entry i was
\* called and deleted.
Resolved(pend, i) ==
    [j \in 1..(Len(pend) - 1) |-> IF j < i THEN pend[j] ELSE pend[j + 1]]

\* The resolver of pending escalation i is called with resp: the suspended
\* call resumes.
Resume(i, resp) ==
    /\ i \in 1..Len(pending)
    /\ LET p == pending[i]
           out == resumePermission(policy, grants, audit, now, p.req, resp)
       IN  /\ grants' = out.grants
           /\ audit' = out.audit
           /\ spent' = Spend(spent, 0, Len(out.grants))
           /\ last' = Returned(p.op, p.req, out.allowed, out.via, out.grantId,
                               FALSE, 1, resp)
           /\ runs' = IF p.worker # <<>> /\ out.allowed
                      THEN [runs EXCEPT ![p.worker[1]].acting =
                               @ \cup {[task |-> p.worker[2], req |-> p.req,
                                        grantId |-> out.grantId]}]
                      ELSE runs
    /\ pending' = Resolved(pending, i)
    /\ UNCHANGED <<now, policy, handler, workflows, workflow,
                   currentPageContext, currentTask, concern, nextId>>

\* The approver answers pending escalation i.
ResolveEscalation(i, resp) == Resume(i, resp) /\ UNCHANGED uiVars

\* The router's case PERMISSION_RESPONSE: the resolver stored under the
\* payload's requestId, if there is one, is called and deleted; otherwise
\* nothing happens.
HandlePermissionResponse(payload) ==
    IF \E i \in DOMAIN pending : pending[i].requestId = payload.requestId
    THEN Resume(CHOOSE i \in DOMAIN pending :
                    pending[i].requestId = payload.requestId,
                payload)
    ELSE /\ last' = Returned("ignored", NoRequest, FALSE, "none", 0, FALSE, 0,
                             payload)
         /\ UNCHANGED <<now, policy, handler, grants, audit, pending, spent,
                        orchVars>>

\* A PERMISSION_RESPONSE message arrives at the router.
PermissionResponse(payload) ==
    HandlePermissionResponse(payload) /\ UNCHANGED uiVars

\* MessageRouter.sendStateSync builds this state.
StateSync == [pendingPermissions |-> <<>>]

\* sendStateSync: the state is posted if a sidebar is connected, and
\* usePermissions replaces its pendingRequests with the state's.
sendStateSync(port, reqs) ==
    IF port THEN StateSync.pendingPermissions ELSE reqs

\* onConnect: a sidebar connects (for the first time or again); the router
\* keeps its port and sends the initial state.
Connect ==
    /\ sidebarPort' = TRUE
    /\ pendingRequests' = sendStateSync(TRUE, pendingRequests)
    /\ UNCHANGED <<permVars, orchVars>>

\* onDisconnect: the port is forgotten.  The sidebar keeps what it shows.
Disconnect ==
    /\ sidebarPort
    /\ sidebarPort' = FALSE
    /\ UNCHANGED <<pendingRequests, permVars, orchVars>>

\* The sidebar sends GET_STATE over its port; the router answers with
\* sendStateSync.
GetState ==
    /\ sidebarPort
    /\ pendingRequests' = sendStateSync(sidebarPort, pendingRequests)
    /\ UNCHANGED <<sidebarPort, permVars, orchVars>>

\* usePermissions.respondToRequest for a prompt the sidebar shows: the
\* PERMISSION_RESPONSE is sent and handled, and the prompt is removed.
RespondToRequest(k, resp) ==
    /\ sidebarPort
    /\ k \in DOMAIN pendingRequests
    /\ HandlePermissionResponse(
           [requestId |-> pendingRequests[k], approved |-> resp.approved,
            duration |-> resp.duration, singleUse |-> resp.singleUse])
    /\ pendingRequests' = SelectSeq(pendingRequests,
                                    LAMBDA id : id # pendingRequests[k])
    /\ UNCHANGED sidebarPort

\* A direct call of check().
Check(agent, level, domain, taskId) ==
    /\ LET c == check(policy, grants, now, agent, level, domain, taskId)
       IN  /\ grants' = c.grants
           /\ spent' = Spend(spent, c.grantId, Len(c.grants))
           /\ last' = Returned("check",
                               Request(agent, level, domain, taskId, ""),
                               c.allowed,
                               IF c.allowed THEN "grant" ELSE "none",
                               c.grantId, c.needsEscalation, 0, NoResponse)
    /\ UNCHANGED <<now, policy, handler, audit, pending, orchVars, uiVars>>

Grant(level, agent, scope, taskId, domain, duration, singleUse) ==
    /\ grants' = GrantOp(grants, policy, now, level, agent, scope, taskId,
                         domain, duration, singleUse)
    /\ spent' = Spend(spent, 0, Len(grants) + 1)
    /\ last' = NoResult
    /\ UNCHANGED <<now, policy, handler, audit, pending, orchVars, uiVars>>

Revoke(grantId) ==
    /\ grantId \in 1..Len(grants)
    /\ grants' = RevokeOp(grants, now, grantId)
    /\ last' = NoResult
    /\ UNCHANGED <<now, policy, handler, audit, pending, spent, orchVars, uiVars>>

RevokeAll(agent) ==
    /\ grants' = RevokeAllOp(grants, now, agent)
    /\ last' = NoResult
    /\ UNCHANGED <<now, policy, handler, audit, pending, spent, orchVars, uiVars>>

RevokeForTask(taskId) ==
    /\ grants' = RevokeForTaskOp(grants, now, taskId)
    /\ last' = NoResult
    /\ UNCHANGED <<now, policy, handler, audit, pending, spent, orchVars, uiVars>>

SetEscalationHandler ==
    /\ handler' = TRUE
    /\ last' = NoResult
    /\ UNCHANGED <<now, policy, grants, audit, pending, spent, orchVars, uiVars>>

\* setPolicy(partial): the given fields replace the policy's.
SetPolicy(partial) ==
    /\ policy' = [f \in DOMAIN policy |->
                     IF f \in DOMAIN partial THEN partial[f] ELSE policy[f]]
    /\ last' = NoResult
    /\ UNCHANGED <<now, handler, grants, audit, pending, spent, orchVars,
                   uiVars>>

\* The clock advances by one minute.
Tick ==
    /\ now' = now + 1
    /\ last' = NoResult
    /\ UNCHANGED <<policy, handler, grants, audit, pending, spent, orchVars, uiVars>>

(***************************************************************************)
(* The Orchestrator: workflows, subtasks and the scheduler.                *)
(***************************************************************************)
\* Orchestrator.agents: the roles that have a worker.
Agents == {"navigator", "researcher", "memory", "guardian"}

\* No page was captured (null).
NoContext == "null"

\* BaseAgent.currentTask is null.
NoTask == "null"

\* A Workflow as processUserInput creates it.  tasks names the run whose
\* subtask array the workflow holds, 0 for the empty array.
NewWorkflow(n) ==
    [id |-> generateId("wf", n), status |-> "in_progress", tasks |-> 0]

\* An execution of processUserInput that has created workflow w.
\*   decomposition  what decomposeIntent yielded: "plan" (the completion's
\*                  plan), "fallback" (its last resort), "null", or "thrown"
\*   plan           the subtasks of the decomposition
\*   fresh          the in-flight tasks whose worker has not yet waited for
\*                  anything since BaseAgent.executeTask was entered
\*   timedOut       the router's withTimeout around the call has fired
\*   acting         the withPermission calls that were allowed and whose
\*                  action is running: the task, the request and the grant
NewRun(w) ==
    [pc |-> "decomposing", wf |-> w, subtasks |-> <<>>, iterations |-> 0,
     completed |-> {}, results |-> {}, round |-> {}, inflight |-> {},
     outcomes |-> {}, reply |-> "", decomposition |-> "", plan |-> <<>>,
     fresh |-> {}, acting |-> {}, timedOut |-> FALSE]

\* Dependencies that keep every index, in range or not.
DependenciesKept(plan, deps) ==
    [k \in 1..Len(deps) |-> "dep_" \o ToString(deps[k])]

\* The dependencies of a subtask: an index that names a subtask of the
\* plan becomes the string dep_<index>, any other is dropped.
Dependencies(plan, deps) ==
    SelectSeq([k \in 1..Len(deps) |->
                  IF deps[k] \in 0..(Len(plan) - 1)
                  THEN "dep_" \o ToString(deps[k])
                  ELSE ""],
              LAMBDA d : d # "")

\* The subtasks created for a plan, with ids generated from n on.
SubTasks(plan, wfId, n) ==
    [idx \in 1..Len(plan) |->
        [id |-> generateId("task", n + idx - 1),
         parentTaskId |-> wfId,
         assignedAgent |-> plan[idx].agent,
         status |-> "pending",
         dependencyResults |-> {},
         dependencies |-> Dependencies(plan, plan[idx].dependencies)]]

\* The plan decomposeIntent falls back to.
FallbackPlan(ctx) ==
    <<[agent |-> IF ctx # NoContext THEN "navigator" ELSE "researcher",
       dependencies |-> <<>>]>>

\* A ready set that does not look at the dependencies.
ReadyIgnoringDependencies(run) ==
    {i \in DOMAIN run.subtasks :
        /\ run.subtasks[i].id \notin run.completed
        /\ run.subtasks[i].status \notin {"failed", "cancelled"}}

\* A ready set that does not look at the completed set.
ReadyAgain(run) ==
    {i \in DOMAIN run.subtasks :
        /\ run.subtasks[i].status \notin {"failed", "cancelled"}
        /\ \A k \in DOMAIN run.subtasks[i].dependencies :
              run.subtasks[i].dependencies[k] \in run.completed}

\* The tasks of the ready set of a round.
Ready(run) ==
    {i \in DOMAIN run.subtasks :
        /\ run.subtasks[i].id \notin run.completed
        /\ run.subtasks[i].status \notin {"failed", "cancelled"}
        /\ \A k \in DOMAIN run.subtasks[i].dependencies :
              run.subtasks[i].dependencies[k] \in run.completed}

\* An end of round that records the outcomes only if all are successes.
EndRoundAllOrNothing(run) ==
    IF \A o \in run.outcomes : o.success
    THEN [run EXCEPT !.results = @ \cup run.outcomes,
                     !.completed = @ \cup {o.taskId : o \in run.outcomes},
                     !.outcomes = {},
                     !.round = {}]
    ELSE [run EXCEPT !.outcomes = {}, !.round = {}]

\* The keys of input.dependencyResults of task i when a round starts it:
\* the dependencies whose entry in results has data (a success has).
Injected(run, i) ==
    {run.subtasks[i].dependencies[k] : k \in DOMAIN run.subtasks[i].dependencies}
        \cap {o.taskId : o \in {x \in run.results : x.success}}

\* The end of a round: every outcome is recorded and its task completed.
EndRound(run) ==
    [run EXCEPT !.results = @ \cup run.outcomes,
                !.completed = @ \cup {o.taskId : o \in run.outcomes},
                !.outcomes = {},
                !.round = {}]

\* A scheduler that does not stop at an empty ready set and whose round
\* limit is one round late.
RECURSIVE executeTasksLateCap(_)
executeTasksLateCap(run) ==
    IF ~(/\ Cardinality(run.completed) < Len(run.subtasks)
         /\ run.iterations < Len(run.subtasks) * 2 + 1)
    THEN [run EXCEPT !.pc = "synthesizing"]
    ELSE LET ready == Ready(run)
             hasAgent == {i \in ready : run.subtasks[i].assignedAgent \in Agents}
             next ==
                 [run EXCEPT
                     !.pc = "executing",
                     !.iterations = @ + 1,
                     !.subtasks =
                         [i \in DOMAIN run.subtasks |->
                             IF i \in hasAgent
                             THEN [run.subtasks[i] EXCEPT
                                      !.status = "in_progress",
                                      !.dependencyResults =
                                          @ \cup Injected(run, i)]
                             ELSE IF i \in ready
                             THEN [run.subtasks[i] EXCEPT !.status = "failed"]
                             ELSE run.subtasks[i]],
                     !.round = ready,
                     !.inflight = hasAgent,
                     !.fresh = hasAgent,
                     !.outcomes =
                         {[taskId |-> run.subtasks[i].id, success |-> FALSE] :
                             i \in ready \ hasAgent}]
         IN  IF hasAgent = {} THEN executeTasksLateCap(EndRound(next)) ELSE next

\* executeTasks from the head of its loop to the next point where it waits
\* for a worker, or to its return.
RECURSIVE executeTasks(_)
executeTasks(run) ==
    IF ~(/\ Cardinality(run.completed) < Len(run.subtasks)
         /\ run.iterations < Len(run.subtasks) * 2)
    THEN [run EXCEPT !.pc = "synthesizing"]
    ELSE IF Ready(run) = {}
    THEN [run EXCEPT !.pc = "synthesizing", !.iterations = @ + 1]
    ELSE LET ready == Ready(run)
             hasAgent == {i \in ready : run.subtasks[i].assignedAgent \in Agents}
             started ==
                 [i \in DOMAIN run.subtasks |->
                     IF i \in hasAgent
                     THEN [run.subtasks[i] EXCEPT
                              !.status = "in_progress",
                              !.dependencyResults = @ \cup Injected(run, i)]
                     ELSE IF i \in ready
                     THEN [run.subtasks[i] EXCEPT !.status = "failed"]
                     ELSE run.subtasks[i]]
             next ==
                 [run EXCEPT
                     !.pc = "executing",
                     !.iterations = @ + 1,
                     !.subtasks = started,
                     !.round = ready,
                     !.inflight = hasAgent,
                     !.fresh = hasAgent,
                     !.outcomes =
                         {[taskId |-> run.subtasks[i].id, success |-> FALSE] :
                             i \in ready \ hasAgent}]
         IN  IF hasAgent = {} THEN executeTasks(EndRound(next)) ELSE next

\* The worker of task i runs the action of a withPermission call.
Acting(run, i) == \E c \in run.acting : c.task = i

\* BaseAgent.executeTask is entered for the tasks a round dispatches, in
\* task order: each worker's currentTask is the last task handed to it.
Handed(ct, run) ==
    [a \in Agents |->
        LET mine == {i \in run.inflight : run.subtasks[i].assignedAgent = a}
        IN  IF mine = {} THEN ct[a]
            ELSE run.subtasks[CHOOSE i \in mine : \A j \in mine : j <= i].id]

\* completeWorkflow: the current workflow, if any, is completed.
completeWorkflow(ws, w) ==
    IF w # 0 THEN [ws EXCEPT ![w].status = "completed"] ELSE ws

\* The catch of processUserInput: the current workflow is failed.
failWorkflow(ws, w) == [ws EXCEPT ![w].status = "failed"]

\* processUserInput up to its first wait: the page context is taken, and
\* unless a workflow is in progress the Guardian assesses the input (ghost:
\* what Echo Archaeology finds in it; silent: more than five minutes have
\* passed since the last input) and a new workflow is created.
ProcessUserInput(pageContext, ghost, silent) ==
    /\ currentPageContext' = pageContext
    /\ IF workflow # 0 /\ workflows[workflow].status = "in_progress"
       THEN UNCHANGED <<workflows, workflow, runs, concern, nextId>>
       ELSE /\ concern' = assessUserInput(concern, ghost, silent)
            /\ workflows' = Append(workflows, NewWorkflow(nextId))
            /\ workflow' = Len(workflows) + 1
            /\ runs' = Append(runs, NewRun(Len(workflows) + 1))
            /\ nextId' = nextId + 1
    /\ UNCHANGED <<currentTask, permVars, uiVars>>

\* The fast path: the question is answered from the page.
FastAnswer(r) ==
    /\ r \in DOMAIN runs
    /\ runs[r].pc = "decomposing"
    /\ currentPageContext # NoContext
    /\ workflows' = completeWorkflow(workflows, workflow)
    /\ runs' = [runs EXCEPT ![r].pc = "returned", ![r].reply = "answer"]
    /\ concern' = recordWorkflowOutcome(concern, TRUE)
    /\ UNCHANGED <<workflow, currentPageContext, currentTask, nextId, permVars, uiVars>>

\* decomposeIntent returned plan (how: from the completion, or as its
\* last resort): the subtasks are created and stored in the current
\* workflow, and executeTasks runs to its first wait.
CreateSubtasks(r, plan, how) ==
    /\ r \in DOMAIN runs
    /\ runs[r].pc = "decomposing"
    /\ workflows' = [workflows EXCEPT ![workflow].tasks = r]
    /\ runs' = [runs EXCEPT ![r] =
          executeTasks([@ EXCEPT
              !.decomposition = how,
              !.plan = plan,
              !.subtasks = SubTasks(plan, workflows[workflow].id, nextId)])]
    /\ currentTask' = Handed(currentTask, runs'[r])
    /\ nextId' = nextId + Len(plan)
    /\ UNCHANGED <<workflow, currentPageContext, concern, permVars, uiVars>>

\* The completion held a plan.
Decompose(r, plan) == CreateSubtasks(r, plan, "plan")

\* decomposeIntent found nothing usable in the completion.
DecomposeFallback(r) ==
    CreateSubtasks(r, FallbackPlan(currentPageContext), "fallback")

\* decomposeIntent returned null.
DecomposeNull(r) ==
    /\ r \in DOMAIN runs
    /\ runs[r].pc = "decomposing"
    /\ workflows' = completeWorkflow(workflows, workflow)
    /\ runs' = [runs EXCEPT ![r].pc = "returned", ![r].reply = "rephrase",
                             ![r].decomposition = "null"]
    /\ UNCHANGED <<workflow, currentPageContext, currentTask, concern, nextId,
                   permVars, uiVars>>

\* A call processUserInput waits for throws: before the subtasks exist the
\* completion call of decomposeIntent (or a setting read before it), after
\* executeTasks the completion call of synthesizeResults (or the history).
Throws(r) ==
    /\ r \in DOMAIN runs
    /\ runs[r].pc \in {"decomposing", "synthesizing"}
    /\ workflows' = failWorkflow(workflows, workflow)
    /\ runs' = [runs EXCEPT
          ![r].pc = "returned",
          ![r].reply = "error",
          ![r].decomposition =
              IF runs[r].pc = "decomposing" THEN "thrown" ELSE @]
    /\ concern' = recordWorkflowOutcome(concern, FALSE)
    /\ UNCHANGED <<workflow, currentPageContext, currentTask, nextId, permVars, uiVars>>

\* The worker of task i returns (success) or returns a failure or throws
\* (~success); it is not suspended in requestPermission, and out of the
\* action of a withPermission call it gets only by a throw.  executeTask
\* clears the worker's currentTask.  With the last return of a round the
\* round ends and executeTasks runs to its next wait.
TaskReturns(r, i, success) ==
    /\ r \in DOMAIN runs
    /\ runs[r].pc = "executing"
    /\ i \in runs[r].inflight
    /\ \A k \in DOMAIN pending : pending[k].worker # <<r, i>>
    /\ Acting(runs[r], i) => ~success
    /\ LET run == runs[r]
           cleared == [currentTask EXCEPT
                          ![run.subtasks[i].assignedAgent] = NoTask]
           returned ==
               [run EXCEPT
                   !.subtasks[i].status =
                       IF success THEN "completed" ELSE "failed",
                   !.inflight = @ \ {i},
                   !.fresh = @ \ {i},
                   !.acting = {c \in @ : c.task # i},
                   !.outcomes = @ \cup {[taskId |-> run.subtasks[i].id,
                                         success |-> success]}]
       IN  IF returned.inflight = {}
           THEN /\ runs' = [runs EXCEPT ![r] = executeTasks(EndRound(returned))]
                /\ currentTask' = Handed(cleared, runs'[r])
           ELSE /\ runs' = [runs EXCEPT ![r] = returned]
                /\ currentTask' = cleared
    /\ UNCHANGED <<workflows, workflow, currentPageContext, concern, nextId,
                   permVars, uiVars>>

\* BaseAgent.withPermission, called by the worker of task i, up to the
\* return of requestPermission or its suspension.  The request carries the
\* worker's currentTask, which is task i as long as the worker has not
\* waited for anything.
WithPermission(r, i, level, domain, action) ==
    /\ r \in DOMAIN runs
    /\ runs[r].pc = "executing"
    /\ i \in runs[r].inflight
    /\ ~Acting(runs[r], i)
    /\ \A k \in DOMAIN pending : pending[k].worker # <<r, i>>
    /\ LET task == runs[r].subtasks[i]
           current == IF i \in runs[r].fresh THEN task.id
                      ELSE currentTask[task.assignedAgent]
           req == Request(task.assignedAgent, level, domain,
                          IF current = NoTask THEN "unknown" ELSE current,
                          action)
           out == requestPermissionIn(concern, policy, handler, grants, audit,
                                      now, req)
       IN  /\ grants' = out.grants
           /\ audit' = out.audit
           /\ spent' = Spend(spent, out.matched, Len(out.grants))
           /\ pending' = IF out.suspended
                         THEN Append(pending,
                                     [req |-> req, op |-> "requestPermission",
                                      logged |-> Len(out.audit) - Len(audit),
                                      worker |-> <<r, i>>,
                                      requestId |-> generateId("esc", nextId)])
                         ELSE pending
           /\ nextId' = IF out.suspended THEN nextId + 1 ELSE nextId
           /\ pendingRequests' = Prompted(sidebarPort, pendingRequests,
                                          out.suspended,
                                          generateId("esc", nextId))
           /\ last' = Returned(IF out.suspended THEN "suspended"
                                                ELSE "requestPermission",
                               req, out.allowed, out.via, out.grantId, FALSE,
                               IF out.suspended THEN 1 ELSE 0, NoResponse)
           /\ runs' = [runs EXCEPT
                          ![r].fresh = @ \ {i},
                          ![r].acting =
                              IF out.allowed
                              THEN @ \cup {[task |-> i, req |-> req,
                                            grantId |-> out.grantId]}
                              ELSE @]
    /\ UNCHANGED <<now, policy, handler, workflows, workflow,
                   currentPageContext, currentTask, concern, sidebarPort>>

\* The action of an allowed withPermission call of task i's worker is
\* done: withPermission logs it and returns.
Acted(r, i) ==
    /\ r \in DOMAIN runs
    /\ Acting(runs[r], i)
    /\ LET c == CHOOSE c \in runs[r].acting : c.task = i
       IN  /\ audit' = LogRequest(audit, c.req, "allowed", c.grantId)
           /\ runs' = [runs EXCEPT ![r].acting = @ \ {c}]
    /\ last' = NoResult
    /\ UNCHANGED <<now, policy, handler, grants, pending, spent, workflows,
                   workflow, currentPageContext, currentTask, concern, nextId, uiVars>>

\* The results are synthesized and saved, and the workflow is completed.
Synthesize(r) ==
    /\ r \in DOMAIN runs
    /\ runs[r].pc = "synthesizing"
    /\ workflows' = completeWorkflow(workflows, workflow)
    /\ runs' = [runs EXCEPT ![r].pc = "returned", ![r].reply = "answer"]
    /\ concern' = recordWorkflowOutcome(concern, \A o \in runs[r].results : o.success)
    /\ UNCHANGED <<workflow, currentPageContext, currentTask, nextId, permVars, uiVars>>

\* cancelWorkflow: the current workflow, if any, is cancelled.
CancelWorkflow ==
    /\ workflow # 0
    /\ workflows' = [workflows EXCEPT ![workflow].status = "cancelled"]
    /\ UNCHANGED <<workflow, runs, currentPageContext, currentTask, concern, nextId,
                   permVars, uiVars>>

\* The router's withTimeout fires before processUserInput of run r has
\* returned: the reply is the timeout message, and cancelWorkflow is called.
Timeout(r) ==
    /\ r \in DOMAIN runs
    /\ runs[r].pc # "returned"
    /\ ~runs[r].timedOut
    /\ runs' = [runs EXCEPT ![r].timedOut = TRUE]
    /\ workflows' = IF workflow # 0
                    THEN [workflows EXCEPT ![workflow].status = "cancelled"]
                    ELSE workflows
    /\ UNCHANGED <<workflow, currentPageContext, currentTask, concern, nextId,
                   permVars, uiVars>>

\* What the router sends the user for run r: the timeout message, what
\* processUserInput returned, or nothing yet.
RouterResponse(run) ==
    IF run.timedOut THEN "timeout"
    ELSE IF run.pc = "returned" THEN run.reply
    ELSE ""

(***************************************************************************)
(* Inputs.                                                                 *)
(***************************************************************************)
ClickCheckout == "click checkout button"

AutoSubmitPayment == "auto-submit payment to card ending 1234"

AccessPasswordFields == "ACCESS_PASSWORD_FIELDS"

\* What the approval dialog can answer: deny, one time only, or a duration.
Responses ==
    {Response(FALSE, <<>>, FALSE), Response(TRUE, <<>>, TRUE),
     Response(TRUE, <<1>>, FALSE), Response(TRUE, <<2>>, FALSE)}

\* Reconfigurations passed to setPolicy.
RaisedCeilings == [DefaultCeilings EXCEPT !["navigator"] = PURCHASE]

PolicyUpdates ==
    {[agentCeilings |-> RaisedCeilings],
     [alwaysAskLevels |-> {INTERACT, SUBMIT, PURCHASE}]}

\* The audit log has room for another call's entries, and the grant store
\* for another grant (bounds of the model).
Room == Len(audit) < MaxAudit /\ Len(grants) < MaxGrants

GrantRoom == Len(grants) < MaxGrants

Init ==
    /\ now = 1
    /\ policy = DEFAULT_POLICY
    /\ handler = FALSE
    /\ grants = <<>>
    /\ audit = <<>>
    /\ pending = <<>>
    /\ last = NoResult
    /\ spent = <<>>
    /\ workflows = <<>>
    /\ workflow = 0
    /\ runs = <<>>
    /\ currentPageContext = NoContext
    /\ currentTask = [a \in Agents |-> NoTask]
    /\ concern = NoConcern
    /\ nextId = 1
    /\ sidebarPort = FALSE
    /\ pendingRequests = <<>>

\* The outcomes an AuditEntry can have.
AuditOutcomes == <<"allowed", "denied", "escalated", "blocked">>

\* The entry of the n-th call of AuditStore.log in a sequence of calls
\* whose level and outcome change from call to call.
Logged(n) ==
    [id |-> generateId("audit", n),
     agent |-> "navigator",
     action |-> ClickCheckout,
     target |-> "shop.example",
     permissionLevel |-> n % 5,
     outcome |-> AuditOutcomes[(n % 4) + 1],
     permissionGrantId |-> 0]

\* AuditStore.log, called directly; the entry's id is generated.
Log ==
    /\ audit' = AuditLog(audit, Logged(nextId))
    /\ nextId' = nextId + 1
    /\ UNCHANGED <<now, policy, handler, grants, pending, last, spent,
                   workflows, workflow, runs, currentPageContext, currentTask,
                   concern, uiVars>>

(***************************************************************************)
(* SpecGate: workers of three roles ask for every level, through           *)
(* requestPermission (BaseAgent.withPermission) and through the Guardian.  *)
(***************************************************************************)
GateRequests ==
    {Request(a, l, "shop.example", "t1", ClickCheckout) :
        a \in {"navigator", "researcher", "memory"}, l \in PermissionLevel}

NextGate ==
    \/ Room /\ \E req \in GateRequests : RequestPermission(req)
    \/ Room /\ \E req \in GateRequests : ValidateAction(req)
    \/ GrantRoom /\ \E i \in 1..MaxPending, resp \in Responses :
          ResolveEscalation(i, resp)
    \/ SetEscalationHandler
    \/ now < MaxNow /\ Tick

SpecGate == Init /\ [][NextGate]_vars

(***************************************************************************)
(* SpecVeto: harmless, vetoed and deny-listed action texts, asked for by   *)
(* two roles while grants exist.                                           *)
(***************************************************************************)
VetoTexts == {ClickCheckout, AutoSubmitPayment, AccessPasswordFields}

VetoRequests ==
    {Request("navigator", INTERACT, "shop.example", "t1", x) : x \in VetoTexts}
        \cup {Request("memory", READ_ONLY, "shop.example", "t1", AutoSubmitPayment)}

\* The approver denies, or allows one time only.
VetoResponses == {Response(FALSE, <<>>, FALSE), Response(TRUE, <<>>, TRUE)}

NextVeto ==
    \/ Room /\ \E req \in VetoRequests : RequestPermission(req)
    \/ Room /\ \E req \in VetoRequests : ValidateAction(req)
    \/ GrantRoom /\ \E i \in 1..MaxPending, resp \in VetoResponses :
          ResolveEscalation(i, resp)
    \/ GrantRoom /\ \E a \in {"navigator", "memory"}, su \in BOOLEAN :
          Grant(INTERACT, a, "task", "t1", Undefined, <<>>, su)
    \/ SetEscalationHandler

SpecVeto == Init /\ [][NextVeto]_vars

(***************************************************************************)
(* SpecSpend: requests of one worker that all fit the same grants, some    *)
(* suspended on the approver while others are decided.                     *)
(***************************************************************************)
SpendRequest == Request("navigator", INTERACT, "shop.example", "t1", ClickCheckout)

NextSpend ==
    \/ GrantRoom /\ \E su \in BOOLEAN :
          Grant(INTERACT, "navigator", "task", "t1", "shop.example", <<>>, su)
    \/ Room /\ RequestPermission(SpendRequest)
    \/ Room /\ ValidateAction(SpendRequest)
    \/ Check("navigator", INTERACT, "shop.example", "t1")
    \/ GrantRoom /\ \E i \in 1..MaxPending, resp \in VetoResponses :
          ResolveEscalation(i, resp)
    \/ SetEscalationHandler

SpecSpend == Init /\ [][NextSpend]_vars

(***************************************************************************)
(* SpecStore: the grant store's interface.  Grants of level INTERACT for   *)
(* task t1 on one site are created, revoked, looked up and left to expire. *)
(***************************************************************************)
StoreRequest == Request("navigator", INTERACT, "shop.example", "t1", ClickCheckout)

NextStore ==
    \/ GrantRoom /\ \E su \in BOOLEAN :
          Grant(INTERACT, "navigator", "task", "t1", "shop.example", <<1>>, su)
    \/ \E id \in 1..MaxGrants : Revoke(id)
    \/ RevokeAll(Undefined)
    \/ RevokeForTask("t1")
    \/ Check("navigator", INTERACT, "shop.example", "t1")
    \/ Len(audit) < MaxStoreAudit /\ RequestPermission(StoreRequest)
    \/ now < MaxStoreNow /\ Tick

SpecStore == Init /\ [][NextStore]_vars

(***************************************************************************)
(* SpecRoundTrip: grant(), then check() for the same role, task and        *)
(* domain at every level up to the granted one, before and after expiry.   *)
(***************************************************************************)
RoundTripRoles == {"navigator", "memory"}

NextRoundTrip ==
    \/ /\ Len(grants) < MaxRoundTripGrants
       /\ \E a \in RoundTripRoles, d \in {<<1>>, <<2>>} :
             Grant(INTERACT, a, "task", "t1", "shop.example", d, FALSE)
    \/ \E a \in RoundTripRoles, l \in READ_ONLY..INTERACT :
          Check(a, l, "shop.example", "t1")
    \/ \E id \in 1..MaxRoundTripGrants : Revoke(id)
    \/ now < MaxNow /\ Tick

SpecRoundTrip == Init /\ [][NextRoundTrip]_vars

(***************************************************************************)
(* SpecEscalate: the navigator asks again and again for INTERACT on        *)
(* shop.example while the approver answers and time passes.                *)
(***************************************************************************)
EscalateRequest ==
    Request("navigator", INTERACT, "shop.example", "t1", ClickCheckout)

EscalateRoom == Len(audit) < MaxEscalateAudit /\ Len(grants) < MaxGrants

NextEscalate ==
    \/ EscalateRoom /\ RequestPermission(EscalateRequest)
    \/ EscalateRoom /\ ValidateAction(EscalateRequest)
    \/ GrantRoom /\ \E i \in 1..MaxPending, resp \in Responses :
          ResolveEscalation(i, resp)
    \/ SetEscalationHandler
    \/ now < MaxNow /\ Tick

SpecEscalate == Init /\ [][NextEscalate]_vars

(***************************************************************************)
(* SpecPolicy: the policy is reconfigured while the navigator holds grants *)
(* and asks for INTERACT and SUBMIT.                                       *)
(***************************************************************************)
PolicyRequests ==
    {Request("navigator", l, "shop.example", "t1", ClickCheckout) :
        l \in {INTERACT, SUBMIT}}

NextPolicy ==
    \/ \E u \in PolicyUpdates : SetPolicy(u)
    \/ GrantRoom /\ \E l \in {INTERACT, SUBMIT} :
          Grant(l, "navigator", "task", "t1", "shop.example", <<>>, FALSE)
    \/ Room /\ \E req \in PolicyRequests : RequestPermission(req)
    \/ GrantRoom /\ \E i \in 1..MaxPending, resp \in VetoResponses :
          ResolveEscalation(i, resp)
    \/ SetEscalationHandler

SpecPolicy == Init /\ [][NextPolicy]_vars

(***************************************************************************)
(* SpecOrch: goals arrive, are decomposed into plans and scheduled, and    *)
(* may be cancelled.                                                       *)
(***************************************************************************)
PageContexts == {NoContext, "https://shop.example/item/1"}

\* Roles a plan may name; the orchestrator has no worker of its own role.
PlanAgents == {"navigator", "orchestrator"}

\* Dependency lists of a plan's subtask: none, the first subtask, or an
\* index no plan of the model has.
PlanDependencies == {<<>>, <<0>>, <<MaxSubtasks>>}

PlanTasks == [agent : PlanAgents, dependencies : PlanDependencies]

Plans == UNION {[1..n -> PlanTasks] : n \in 1..MaxSubtasks}

NextOrch ==
    \/ Len(runs) < MaxRuns /\ \E ctx \in PageContexts : ProcessUserInput(ctx, NoGhost, FALSE)
    \/ \E r \in 1..MaxRuns : FastAnswer(r)
    \/ \E r \in DOMAIN runs :
          /\ runs[r].pc = "decomposing"
          /\ \E plan \in Plans : Decompose(r, plan)
    \/ \E r \in 1..MaxRuns : DecomposeFallback(r)
    \/ \E r \in 1..MaxRuns : DecomposeNull(r)
    \/ \E r \in 1..MaxRuns : Throws(r)
    \/ \E r \in 1..MaxRuns, i \in 1..MaxSubtasks, success \in BOOLEAN :
          TaskReturns(r, i, success)
    \/ \E r \in 1..MaxRuns : Synthesize(r)
    \/ CancelWorkflow

SpecOrch == Init /\ [][NextOrch]_vars

(***************************************************************************)
(* SpecSchedule: one goal is decomposed into a plan of up to               *)
(* MaxScheduleTasks subtasks, scheduled and synthesized.                   *)
(***************************************************************************)
\* Dependency lists of a plan's subtask: none, one of the first three
\* subtasks, the first two, an index no plan of the model has, or the
\* first subtask and such an index.
ScheduleDependencies ==
    {<<>>, <<0>>, <<1>>, <<2>>, <<0, 1>>, <<MaxScheduleTasks + 2>>,
     <<0, MaxScheduleTasks + 2>>}

SchedulePlans ==
    UNION {[1..n -> [agent : PlanAgents, dependencies : ScheduleDependencies]] :
              n \in 1..MaxScheduleTasks}

\* A worker call of some run returns.
WorkerReturns ==
    \E r \in DOMAIN runs, i \in 1..MaxScheduleTasks, success \in BOOLEAN :
        TaskReturns(r, i, success)

NextSchedule ==
    \/ runs = <<>> /\ ProcessUserInput(NoContext, NoGhost, FALSE)
    \/ \E r \in DOMAIN runs :
          /\ runs[r].pc = "decomposing"
          /\ \E plan \in SchedulePlans : Decompose(r, plan)
    \/ \E r \in DOMAIN runs : DecomposeFallback(r)
    \/ \E r \in DOMAIN runs : DecomposeNull(r)
    \/ \E r \in DOMAIN runs : Throws(r)
    \/ WorkerReturns
    \/ \E r \in DOMAIN runs : Synthesize(r)

SpecSchedule == Init /\ [][NextSchedule]_vars

\* SpecSchedule with every dispatched worker call returning.
SpecScheduleFair == SpecSchedule /\ WF_vars(WorkerReturns)

(***************************************************************************)
(* SpecWorkers: one goal whose workers ask for permission while they       *)
(* execute; the approver answers the escalations.                          *)
(***************************************************************************)
WorkerAgents == {"navigator", "researcher"}

WorkerPlans ==
    UNION {[1..n -> [agent : WorkerAgents, dependencies : {<<>>, <<0>>}]] :
              n \in 1..MaxWorkerTasks}

WorkerLevels == {READ_ONLY, INTERACT}

\* The approver denies, allows one time only, or allows for a minute.
WorkerResponses ==
    {Response(FALSE, <<>>, FALSE), Response(TRUE, <<>>, TRUE),
     Response(TRUE, <<1>>, FALSE)}

WorkerRoom == Len(audit) < MaxWorkerAudit /\ Len(grants) < MaxWorkerGrants

NextWorkers ==
    \/ runs = <<>> /\ handler /\ ProcessUserInput(NoContext, NoGhost, FALSE)
    \/ \E r \in DOMAIN runs :
          /\ runs[r].pc = "decomposing"
          /\ \E plan \in WorkerPlans : Decompose(r, plan)
    \/ \E r \in DOMAIN runs, i \in 1..MaxWorkerTasks, success \in BOOLEAN :
          TaskReturns(r, i, success)
    \/ /\ WorkerRoom
       /\ Len(pending) < MaxWorkerPending
       /\ \E r \in DOMAIN runs, i \in 1..MaxWorkerTasks, l \in WorkerLevels :
             WithPermission(r, i, l, "shop.example", ClickCheckout)
    \/ /\ Len(audit) < MaxWorkerAudit
       /\ \E r \in DOMAIN runs, i \in 1..MaxWorkerTasks : Acted(r, i)
    \/ /\ WorkerRoom
       /\ \E i \in 1..MaxWorkerPending, resp \in WorkerResponses :
             ResolveEscalation(i, resp)
    \/ \E r \in DOMAIN runs : Synthesize(r)
    \/ ~handler /\ SetEscalationHandler

SpecWorkers == Init /\ [][NextWorkers]_vars

(***************************************************************************)
(* SpecTimeout: goals, each a plan of one subtask, arrive while earlier    *)
(* ones are still being worked on; the user cancels, and the router's time *)
(* limit expires.  The model stops creating workflows and subtasks after   *)
(* MaxTimeoutIds of them.                                                  *)
(***************************************************************************)
TimeoutPlans == {<<[agent |-> "navigator", dependencies |-> <<>>]>>}

NextTimeout ==
    \/ nextId <= MaxTimeoutIds /\ ProcessUserInput(NoContext, NoGhost, FALSE)
    \/ /\ nextId <= MaxTimeoutIds
       /\ \E r \in DOMAIN runs, plan \in TimeoutPlans : Decompose(r, plan)
    \/ \E r \in DOMAIN runs : TaskReturns(r, 1, TRUE)
    \/ \E r \in DOMAIN runs : Synthesize(r)
    \/ \E r \in DOMAIN runs : Throws(r)
    \/ CancelWorkflow
    \/ \E r \in DOMAIN runs : Timeout(r)

SpecTimeout == Init /\ [][NextTimeout]_vars

(***************************************************************************)
(* SpecScope: grants of every scope, for the asking task and site and for  *)
(* others, are created, revoked and looked up by one request.              *)
(***************************************************************************)
ScopeRequest == Request("navigator", INTERACT, "shop.example", "t1", ClickCheckout)

\* Grants that do not cover the request: for another task, another site,
\* another role, or of a lower level.
ScopeOthers ==
    {[level |-> INTERACT, agent |-> "navigator", scope |-> "task",
      taskId |-> "t2", domain |-> "shop.example"],
     [level |-> INTERACT, agent |-> "navigator", scope |-> "site",
      taskId |-> "t1", domain |-> "other.example"],
     [level |-> INTERACT, agent |-> "navigator", scope |-> "task_site",
      taskId |-> "t2", domain |-> "shop.example"],
     [level |-> INTERACT, agent |-> "navigator", scope |-> "task_site",
      taskId |-> "t1", domain |-> "other.example"],
     [level |-> INTERACT, agent |-> "researcher", scope |-> "global",
      taskId |-> Undefined, domain |-> Undefined],
     [level |-> NAVIGATE, agent |-> "navigator", scope |-> "global",
      taskId |-> Undefined, domain |-> Undefined]}

NextScope ==
    \/ /\ Len(grants) < MaxScopeGrants
       /\ \E sc \in PermissionScope, su \in BOOLEAN :
             Grant(ScopeRequest.level, ScopeRequest.agent, sc,
                   ScopeRequest.taskId, ScopeRequest.domain, <<>>, su)
    \/ /\ Len(grants) < MaxScopeGrants
       /\ \E g \in ScopeOthers :
             Grant(g.level, g.agent, g.scope, g.taskId, g.domain, <<>>, FALSE)
    \/ \E id \in 1..MaxScopeGrants : Revoke(id)
    \/ Check(ScopeRequest.agent, ScopeRequest.level, ScopeRequest.domain,
             ScopeRequest.taskId)

SpecScope == Init /\ [][NextScope]_vars

(***************************************************************************)
(* SpecAudit: AuditStore.log is called MaxAuditCalls times.                *)
(***************************************************************************)
NextAudit == nextId <= MaxAuditCalls /\ Log

SpecAudit == Init /\ [][NextAudit]_vars

(***************************************************************************)
(* SpecConcern: goals are answered from the page or fail, with and without *)
(* signs of frustration in the input, while the navigator asks the Gate    *)
(* and the Authority for permission.                                       *)
(***************************************************************************)
ConcernRequests ==
    {Request("navigator", l, "shop.example", "t1", ClickCheckout) :
        l \in {READ_ONLY, INTERACT}}

\* What an input shows: nothing, or a ghost that raises the concern to low
\* or to high.
Ghosts == {NoGhost, "low", "high"}

ConcernRoom == Len(audit) < MaxConcernAudit /\ Len(grants) < MaxConcernGrants

NextConcern ==
    \/ /\ nextId <= MaxConcernIds
       /\ \E ghost \in Ghosts, silent \in BOOLEAN :
             ProcessUserInput("https://shop.example/item/1", ghost, silent)
    \/ \E r \in DOMAIN runs : FastAnswer(r)
    \/ \E r \in DOMAIN runs : Throws(r)
    \/ ConcernRoom /\ \E req \in ConcernRequests : ValidateAction(req)
    \/ ConcernRoom /\ \E req \in ConcernRequests : RequestPermission(req)
    \/ /\ Len(grants) < MaxConcernGrants
       /\ ResolveEscalation(1, Response(TRUE, <<>>, FALSE))
    \/ ~handler /\ SetEscalationHandler

SpecConcern == Init /\ [][NextConcern]_vars

(***************************************************************************)
(* SpecResponse: the navigator's requests escalate, and the approval UI    *)
(* sends responses: for pending escalations, for escalations that were     *)
(* answered before, and with ids that were never issued.                   *)
(***************************************************************************)
ResponsePayloads ==
    [requestId : {generateId("esc", n) : n \in 1..(MaxResponseIds + 1)},
     approved : BOOLEAN,
     duration : {<<>>},
     singleUse : {TRUE}]

ResponseRoom ==
    /\ nextId <= MaxResponseIds
    /\ Len(audit) < MaxResponseAudit
    /\ Len(grants) < MaxResponseGrants

NextResponse ==
    \/ ResponseRoom /\ RequestPermission(EscalateRequest)
    \/ ResponseRoom /\ ValidateAction(EscalateRequest)
    \/ \E payload \in ResponsePayloads : PermissionResponse(payload)
    \/ ~handler /\ SetEscalationHandler

SpecResponse == Init /\ [][NextResponse]_vars

(***************************************************************************)
(* SpecSidebar: the navigator's requests escalate to the approval UI,      *)
(* which connects, disconnects, asks for the state and answers the         *)
(* prompts it shows.                                                       *)
(***************************************************************************)
SidebarResponses == {Response(FALSE, <<>>, FALSE), Response(TRUE, <<>>, TRUE)}

SidebarRoom ==
    /\ nextId <= MaxSidebarIds
    /\ Len(audit) < MaxSidebarAudit
    /\ Len(grants) < MaxSidebarGrants

NextSidebar ==
    \/ SidebarRoom /\ RequestPermission(EscalateRequest)
    \/ ~sidebarPort /\ Connect
    \/ Disconnect
    \/ GetState
    \/ \E k \in 1..MaxPending, resp \in SidebarResponses :
          RespondToRequest(k, resp)
    \/ ~handler /\ SetEscalationHandler

SpecSidebar == Init /\ [][NextSidebar]_vars

(***************************************************************************)
(* SpecCause: two roles ask for levels up to INTERACT on two sites and for *)
(* two tasks; every grant comes from an auto-grant or from an approval.    *)
(***************************************************************************)
CauseRequests ==
    {Request(a, l, d, t, ClickCheckout) :
        a \in {"navigator", "researcher"}, l \in {NAVIGATE, INTERACT},
        d \in {"shop.example", "bank.example"}, t \in {"t1", "t2"}}

CauseRoom == Len(audit) < MaxCauseAudit /\ Len(grants) < MaxCauseGrants

NextCause ==
    \/ CauseRoom /\ \E req \in CauseRequests : RequestPermission(req)
    \/ \E resp \in SidebarResponses : ResolveEscalation(1, resp)
    \/ ~handler /\ SetEscalationHandler

SpecCause == Init /\ [][NextCause]_vars

(***************************************************************************)
(* SpecDeny: grants of one minute are made for two tasks and expire; the   *)
(* navigator asks for INTERACT, before and after an approval callback is   *)
(* registered, and the approver answers.                                   *)
(***************************************************************************)
DenyRoom == Len(audit) < MaxDenyAudit /\ Len(grants) < MaxDenyGrants

NextDeny ==
    \/ /\ Len(grants) < MaxDenyGrants
       /\ \E t \in {"t1", "t2"}, su \in BOOLEAN :
             Grant(INTERACT, "navigator", "task_site", t, "shop.example",
                   <<1>>, su)
    \/ DenyRoom /\ RequestPermission(StoreRequest)
    \/ \E resp \in SidebarResponses : ResolveEscalation(1, resp)
    \/ ~handler /\ SetEscalationHandler
    \/ now < MaxDenyNow /\ Tick

SpecDeny == Init /\ [][NextDeny]_vars

(***************************************************************************)
(* SpecRevive: every operation of the grant store, on grants of one minute *)
(* that are used, revoked (also twice) and expire.                         *)
(***************************************************************************)
NextRevive ==
    \/ /\ Len(grants) < MaxReviveGrants
       /\ \E su \in BOOLEAN :
             Grant(INTERACT, "navigator", "task", "t1", "shop.example", <<1>>,
                   su)
    \/ \E id \in 1..MaxReviveGrants : Revoke(id)
    \/ RevokeAll(Undefined)
    \/ RevokeForTask("t1")
    \/ Check("navigator", INTERACT, "shop.example", "t1")
    \/ Len(audit) < MaxReviveAudit /\ RequestPermission(StoreRequest)
    \/ now < MaxReviveNow /\ Tick

SpecRevive == Init /\ [][NextRevive]_vars

(***************************************************************************)
(* SpecReconfigure: setPolicy raises the navigator's ceiling, changes the  *)
(* always-ask levels or empties the blocked list, and the navigator's      *)
(* requests go to the Gate and to the Authority.                           *)
(***************************************************************************)
ReconfigureUpdates == PolicyUpdates \cup {[blockedActions |-> {}]}

ReconfigureRequests ==
    {Request("navigator", l, "shop.example", "t1", a) :
        l \in {INTERACT, SUBMIT}, a \in {ClickCheckout, AccessPasswordFields}}

NextReconfigure ==
    \/ \E u \in ReconfigureUpdates : SetPolicy(u)
    \/ Room /\ \E req \in ReconfigureRequests : RequestPermission(req)
    \/ Room /\ \E req \in ReconfigureRequests : ValidateAction(req)
    \/ GrantRoom /\ \E resp \in VetoResponses : ResolveEscalation(1, resp)
    \/ ~handler /\ SetEscalationHandler

SpecReconfigure == Init /\ [][NextReconfigure]_vars

(***************************************************************************)
(* Claims.                                                                 *)
(***************************************************************************)
EntryPoints == {"requestPermission", "validateAction"}

\* The latest step was a call of an entry point (returned at once, or was
\* suspended), not the resumption of an earlier call.
CallStep ==
    \/ last.op = "suspended"
    \/ last.op \in EntryPoints /\ last.callbacks = 0

\* C1: neither requestPermission nor validateAction returns allowed for a
\* request whose level is above the policy ceiling of its role.
C1_AllowedWithinCeiling ==
    (last.op \in EntryPoints /\ last.allowed)
        => last.req.level <= policy.agentCeilings[last.req.agent]

\* C9: no grant in the store has a level above the policy ceiling of its
\* role.
C9_GrantsWithinCeiling ==
    \A i \in 1..Len(grants) :
        grants[i].level <= policy.agentCeilings[grants[i].agent]

\* An active grant that covers request req.
Covers(g, req) ==
    /\ IsCandidate(g, req.agent, req.level, now)
    /\ \/ g.scope = "global"
       \/ g.scope = "task" /\ g.taskId = req.taskId
       \/ g.scope = "site" /\ g.domain = req.domain
       \/ g.scope = "task_site" /\ g.taskId = req.taskId /\ g.domain = req.domain

\* C2: a request to requestPermission whose action text matches a veto
\* phrase or a policy blocked-action substring is never answered allowed,
\* whatever grants exist.
C2_VetoedNeverAllowed ==
    (/\ last.op = "requestPermission"
     /\ \/ isWontDo(last.req.action)
        \/ isBlocked(policy, last.req.action))
        => ~last.allowed

\* C3: validateAction on an action text that matches a veto pattern returns
\* not allowed and logs one entry of outcome blocked; it looks up and
\* consumes no grant, and it does not invoke the approval callback.
C3_VetoFirst ==
    [][(/\ isWontDo(last'.req.action)
        /\ \/ last'.op = "validateAction"
           \/ /\ last'.op = "suspended"
              /\ pending' # pending
              /\ pending'[Len(pending')].op = "validateAction")
       => /\ last'.op = "validateAction"
          /\ ~last'.allowed
          /\ last'.callbacks = 0
          /\ audit' = LogRequest(audit, last'.req, "blocked", 0)
          /\ grants' = grants
          /\ spent' = spent
          /\ pending' = pending]_vars

\* A vetoed action was validated while an unused single-use grant covers it.
C3_Witness ==
    /\ last.op = "validateAction"
    /\ isWontDo(last.req.action)
    /\ \E i \in 1..Len(grants) :
          /\ Covers(grants[i], last.req)
          /\ grants[i].singleUse
    /\ last.req.level <= policy.agentCeilings[last.req.agent]

\* Grant g was active when the latest operation looked it up.
WasActive(g) ==
    /\ g.revokedAt = Unset
    /\ g.expiresAt > now
    /\ ~(g.singleUse /\ g.used) \/ last.grantId = g.id

\* Grant g has the role, a level and the scope for request req.
Fits(g, req) ==
    /\ g.agent = req.agent
    /\ g.level >= req.level
    /\ \/ g.scope = "global"
       \/ g.scope = "task" /\ g.taskId = req.taskId
       \/ g.scope = "site" /\ g.domain = req.domain
       \/ g.scope = "task_site" /\ g.taskId = req.taskId /\ g.domain = req.domain

\* C4: a single-use grant is returned by check() to at most one request,
\* and to exactly one once it is marked used; every other request that it
\* fits gets no grant from it.
C4_NoDoubleSpend ==
    \A i \in 1..Len(grants) :
        grants[i].singleUse =>
            /\ spent[i] <= 1
            /\ (spent[i] = 1) <=> grants[i].used

\* A used single-use grant fits the latest request, which was not allowed.
C4_Witness ==
    /\ last.op \in EntryPoints \cup {"suspended"}
    /\ ~last.allowed
    /\ \E i \in 1..Len(grants) :
          /\ grants[i].singleUse
          /\ grants[i].used
          /\ spent[i] = 1
          /\ grants[i].revokedAt = Unset
          /\ grants[i].expiresAt > now
          /\ Fits(grants[i], last.req)

\* C5: a grant that check() returns as the match is active at the moment
\* of the match: not revoked, not expired, and not a single-use grant that
\* was used before.
C5_MatchIsActive ==
    last.via = "grant" =>
        /\ last.grantId \in 1..Len(grants)
        /\ grants[last.grantId].revokedAt = Unset
        /\ grants[last.grantId].expiresAt > now
        /\ grants[last.grantId].singleUse => spent[last.grantId] = 1

\* check() matched a grant while an older grant that fits the request is
\* revoked or expired.
C5_Witness ==
    /\ last.via = "grant"
    /\ \E j \in 1..Len(grants) :
          /\ j < last.grantId
          /\ Fits(grants[j], last.req)
          /\ grants[j].revokedAt # Unset
    /\ \E j \in 1..Len(grants) :
          /\ Fits(grants[j], last.req)
          /\ grants[j].expiresAt <= now

\* The grants made for the role, task and domain of request req, with at
\* least its level.
GrantsFor(req) ==
    {i \in 1..Len(grants) :
        /\ grants[i].agent = req.agent
        /\ grants[i].level >= req.level
        /\ grants[i].taskId = req.taskId
        /\ grants[i].domain = req.domain}

\* C6 as claimed: for every role and every level up to the granted one,
\* check returns allowed while a grant for the same role, task and domain
\* is unexpired, and not allowed with needsEscalation once all are expired.
C6_RoundTrip ==
    last.op = "check" =>
        /\ (\E i \in GrantsFor(last.req) : WasActive(grants[i]))
              => last.allowed
        /\ (/\ GrantsFor(last.req) # {}
            /\ \A i \in GrantsFor(last.req) : grants[i].expiresAt <= now)
              => ~last.allowed /\ last.needsEscalation

\* C6 amended: the round trip holds for levels within the role's ceiling,
\* and after expiry needsEscalation is true exactly for levels above
\* READ_ONLY or in alwaysAskLevels; above the ceiling check never allows
\* and never asks for escalation.
C6_RoundTripWithinCeiling ==
    last.op = "check" =>
        LET req == last.req
            within == req.level <= policy.agentCeilings[req.agent]
        IN  /\ (within /\ \E i \in GrantsFor(req) : WasActive(grants[i]))
                  => last.allowed /\ ~last.needsEscalation
            /\ (within /\ \A i \in 1..Len(grants) :
                              Fits(grants[i], req) => grants[i].expiresAt <= now)
                  => /\ ~last.allowed
                     /\ last.needsEscalation
                            <=> \/ req.level > READ_ONLY
                                \/ req.level \in policy.alwaysAskLevels
            /\ ~within => ~last.allowed /\ ~last.needsEscalation

\* Both halves of the round trip: a check was allowed by a grant, and a
\* check after that grant's expiry was refused with needsEscalation.
C6_Witness ==
    /\ last.op = "check"
    /\ ~last.allowed
    /\ last.needsEscalation
    /\ last.req.level = NAVIGATE
    /\ \E i \in GrantsFor(last.req) :
          /\ spent[i] >= 1
          /\ grants[i].expiresAt <= now
          /\ grants[i].revokedAt = grants[i].expiresAt

\* Request req is at a level that is not auto-granted.
NeedsApproval(req) ==
    req.level > NAVIGATE \/ req.level \in policy.alwaysAskLevels

\* Request req passes the veto, the deny lists and the ceilings.
Admissible(req) ==
    /\ ~isWontDo(req.action)
    /\ ~isPolicyBlocked(req.action)
    /\ ~isBlocked(policy, req.action)
    /\ req.level <= policy.agentCeilings[req.agent]
    /\ req.level <= DEFAULT_POLICY.agentCeilings[req.agent]

\* Grant g is what approving request req for some duration without
\* singleUse creates.
ApprovedFor(g, req) ==
    /\ g.scope = "task_site"
    /\ g.agent = req.agent
    /\ g.level = req.level
    /\ g.domain = req.domain
    /\ g.taskId = req.taskId
    /\ ~g.singleUse

\* C7: a request that needs approval and has no grant invokes the approval
\* callback once; the grant made on approval with duration d lasts d from
\* the approval, an identical request made before it expires is allowed
\* without the callback, and one made after escalates again.
C7_ApprovalLasts ==
    /\ last.callbacks \in {0, 1}
    /\ last.via = "approved" =>
          /\ last.callbacks = 1
          /\ last.grantId = Len(grants)
          /\ grants[last.grantId].scope = "task_site"
          /\ grants[last.grantId].agent = last.req.agent
          /\ grants[last.grantId].level = last.req.level
          /\ grants[last.grantId].domain = last.req.domain
          /\ grants[last.grantId].taskId = last.req.taskId
          /\ grants[last.grantId].singleUse = last.resp.singleUse
          /\ grants[last.grantId].expiresAt =
                now + (IF last.resp.duration = <<>>
                       THEN policy.defaultTTL[last.req.level]
                       ELSE last.resp.duration[1])
    /\ (/\ CallStep
        /\ NeedsApproval(last.req)
        /\ Admissible(last.req)
        /\ \E i \in 1..Len(grants) :
              ApprovedFor(grants[i], last.req) /\ now < grants[i].expiresAt)
          => /\ last.op \in EntryPoints
             /\ last.allowed
             /\ last.callbacks = 0
    /\ (/\ CallStep
        /\ NeedsApproval(last.req)
        /\ Admissible(last.req)
        /\ handler
        /\ \A i \in 1..Len(grants) :
              Fits(grants[i], last.req) =>
                 \/ grants[i].expiresAt <= now
                 \/ grants[i].singleUse /\ grants[i].used /\ last.grantId # i)
          => /\ last.op = "suspended"
             /\ last.callbacks = 1

\* An approved grant served a later identical request, then expired, and
\* the next identical request is with the approver again.
C7_Witness ==
    /\ last.op = "suspended"
    /\ NeedsApproval(last.req)
    /\ \E i \in 1..Len(grants) :
          /\ ApprovedFor(grants[i], last.req)
          /\ spent[i] >= 1
          /\ grants[i].expiresAt <= now

\* C8: a request at a level of alwaysAskLevels (that passes the veto, the
\* deny lists and the ceiling, with an approval callback registered)
\* invokes the callback, whatever grants match it.
C8_AlwaysAskEscalates ==
    (/\ CallStep
     /\ last.req.level \in policy.alwaysAskLevels
     /\ Admissible(last.req)
     /\ handler)
        => last.op = "suspended"

\* C10: every dependency of every task created for a workflow is the id
\* of another task created for that workflow.
C10_DependenciesAreTaskIds ==
    \A r \in DOMAIN runs :
        \A i \in DOMAIN runs[r].subtasks :
            \A k \in DOMAIN runs[r].subtasks[i].dependencies :
                \E j \in DOMAIN runs[r].subtasks :
                    /\ j # i
                    /\ runs[r].subtasks[j].id =
                          runs[r].subtasks[i].dependencies[k]

\* Every dependency index of the plan names a subtask of the plan.
InRange(plan) ==
    \A i \in DOMAIN plan :
        \A k \in DOMAIN plan[i].dependencies :
            plan[i].dependencies[k] \in 0..(Len(plan) - 1)

\* The dependencies of the plan have no cycle: the subtasks can be ranked
\* so that each one ranks above its dependencies.
Acyclic(plan) ==
    \E rank \in [DOMAIN plan -> DOMAIN plan] :
        \A i \in DOMAIN plan :
            \A k \in DOMAIN plan[i].dependencies :
                LET d == plan[i].dependencies[k] + 1
                IN  d \in DOMAIN plan => rank[d] < rank[i]

\* executeTasks of the run has returned.
Scheduled(run) ==
    run.pc \in {"synthesizing", "returned"} /\ run.subtasks # <<>>

\* C11: for a plan whose dependency indices are in range and acyclic, with
\* workers that return, executeTasks has executed every task when it
\* returns (as A, then B and C, for the plan A, B after A, C after A).
C11_EveryTaskExecutes ==
    \A r \in DOMAIN runs :
        (Scheduled(runs[r]) /\ InRange(runs[r].plan) /\ Acyclic(runs[r].plan))
            => \A i \in DOMAIN runs[r].subtasks :
                  runs[r].subtasks[i].status \in {"completed", "failed"}

\* C12: when executeTasks stopped while some task was never executed, the
\* workflow does not end completed.
C12_StuckIsNotSuccess ==
    \A r \in DOMAIN runs :
        (/\ runs[r].pc = "returned"
         /\ \E i \in DOMAIN runs[r].subtasks :
               runs[r].subtasks[i].status = "pending")
            => workflows[runs[r].wf].status # "completed"

\* C13: at most one execution of processUserInput is between its
\* admission and its return.
C13_OneGoalAtATime ==
    Cardinality({r \in DOMAIN runs : runs[r].pc # "returned"}) <= 1

\* C16: when the decomposition service fails (its completion call throws,
\* or holds nothing usable), the run goes on with exactly one subtask
\* without dependencies for a default role, and the workflow is not failed
\* unless something after the decomposition threw.
C16_DegradedPlan ==
    \A r \in DOMAIN runs :
        runs[r].decomposition \in {"fallback", "thrown"}
            => /\ Len(runs[r].subtasks) = 1
               /\ runs[r].subtasks[1].dependencies = <<>>
               /\ runs[r].subtasks[1].assignedAgent \in {"navigator", "researcher"}
               /\ workflows[runs[r].wf].status = "failed"
                     => runs[r].pc = "returned" /\ runs[r].iterations > 0

\* C14: one call of requestPermission or of validateAction grows the
\* audit log by exactly one entry, whether it returns at once or is
\* suspended on the approver and resumed.
C14_OneEntryPerCall ==
    [][/\ (last'.op \in EntryPoints /\ last'.callbacks = 0)
             => Len(audit') = Len(audit) + 1
       /\ (last'.op \in EntryPoints /\ last'.callbacks = 1)
             => \A i \in DOMAIN pending :
                   (pending[i].req = last'.req /\ pending[i].op = last'.op)
                      => pending[i].logged + Len(audit') - Len(audit) = 1]_vars

\* C15: a request at READ_ONLY or NAVIGATE, not in alwaysAskLevels, that
\* passes the veto, the deny lists and the ceiling and that no active grant
\* covers, is answered allowed with a new grant of the level's default
\* lifetime and without the approval callback, by requestPermission and by
\* validateAction.
C15_AutoGrant ==
    [][(/\ CallStep'
        /\ last'.req.level <= NAVIGATE
        /\ last'.req.level \notin policy.alwaysAskLevels
        /\ Admissible(last'.req)
        /\ ~\E i \in 1..Len(grants) : Covers(grants[i], last'.req))
       => /\ last'.op \in EntryPoints
          /\ last'.allowed
          /\ last'.callbacks = 0
          /\ Len(grants') = Len(grants) + 1
          /\ last'.grantId = Len(grants')
          /\ grants'[Len(grants')].agent = last'.req.agent
          /\ grants'[Len(grants')].level = last'.req.level
          /\ grants'[Len(grants')].expiresAt =
                now + policy.defaultTTL[last'.req.level]]_vars

\* Task i of run r is started by the step: it was pending, or not yet
\* created, and is pending no more.
StartedNow(r, i) ==
    /\ runs'[r].subtasks[i].status # "pending"
    /\ \/ r \notin DOMAIN runs
       \/ i \notin DOMAIN runs[r].subtasks
       \/ runs[r].subtasks[i].status = "pending"

\* C17: when executeTasks starts a task, every dependency the task
\* declares (a subtask of the plan, or an id among its dependencies) is of
\* another task that is completed or failed and whose round has ended.
C17_DependenciesFirst ==
    [][\A r \in DOMAIN runs' :
          \A i \in DOMAIN runs'[r].subtasks :
             StartedNow(r, i) =>
                /\ \A k \in DOMAIN runs'[r].plan[i].dependencies :
                      LET d == runs'[r].plan[i].dependencies[k] + 1
                      IN  d \in DOMAIN runs'[r].subtasks =>
                             /\ d # i
                             /\ d \notin runs'[r].round
                             /\ runs'[r].subtasks[d].status \in {"completed", "failed"}
                             /\ runs'[r].subtasks[d].id \in runs'[r].completed
                /\ \A k \in DOMAIN runs'[r].subtasks[i].dependencies :
                      runs'[r].subtasks[i].dependencies[k] \in runs'[r].completed]_vars

\* A round is under way in which a task is held back, pending, while the
\* subtask it depends on is with its worker.
C17_Witness ==
    \E r \in DOMAIN runs :
        /\ runs[r].pc = "executing"
        /\ \E i \in DOMAIN runs[r].subtasks :
              /\ runs[r].subtasks[i].status = "pending"
              /\ runs[r].plan[i].dependencies # <<>>
              /\ \A k \in DOMAIN runs[r].plan[i].dependencies :
                    LET d == runs[r].plan[i].dependencies[k] + 1
                    IN  /\ d \in DOMAIN runs[r].subtasks
                        /\ d # i
                        /\ d \in runs[r].inflight

\* C18: executeTasks runs at most 2 x taskCount rounds, whatever the
\* dependencies, and with every dispatched worker call returning it
\* returns.
C18_BoundedRounds ==
    /\ [](\A r \in DOMAIN runs :
             runs[r].iterations <= 2 * Len(runs[r].subtasks))
    /\ (\E r \in DOMAIN runs : runs[r].pc = "executing")
          ~> (\A r \in DOMAIN runs : runs[r].pc # "executing")

\* executeTasks has returned from a plan whose dependencies form a cycle,
\* after a round in which it had a task executed.
C18_Witness ==
    \E r \in DOMAIN runs :
        /\ Scheduled(runs[r])
        /\ InRange(runs[r].plan)
        /\ ~Acyclic(runs[r].plan)
        /\ runs[r].completed # {}
        /\ \E i \in DOMAIN runs[r].subtasks :
              runs[r].subtasks[i].status = "pending"

\* The dependency indices of deps that name no subtask of plan.
OutOfRange(plan, deps) ==
    {k \in DOMAIN deps : deps[k] \notin 0..(Len(plan) - 1)}

\* C19: a dependency index that is out of range raises no error and is
\* dropped: the subtask is created with its other dependencies only, and
\* one whose dependencies are all out of range is started in the first
\* round of executeTasks.
C19_OutOfRangeDropped ==
    [][\A r \in DOMAIN runs' :
          (/\ r \notin DOMAIN runs \/ runs[r].pc = "decomposing"
           /\ runs'[r].decomposition = "plan")
          => /\ runs'[r].reply # "error"
             /\ Len(runs'[r].subtasks) = Len(runs'[r].plan)
             /\ \A i \in DOMAIN runs'[r].plan :
                   LET deps == runs'[r].plan[i].dependencies
                       task == runs'[r].subtasks[i]
                   IN  /\ Len(task.dependencies) =
                             Len(deps) - Cardinality(OutOfRange(runs'[r].plan, deps))
                       /\ OutOfRange(runs'[r].plan, deps) = DOMAIN deps
                             => /\ task.dependencies = <<>>
                                /\ task.status \in {"in_progress", "failed"}]_vars

\* A plan of three subtasks, the third with a dependency index out of
\* range, has had its third subtask executed.
C19_Witness ==
    \E r \in DOMAIN runs :
        /\ Len(runs[r].plan) = 3
        /\ runs[r].plan[3].dependencies # <<>>
        /\ OutOfRange(runs[r].plan, runs[r].plan[3].dependencies)
              = DOMAIN runs[r].plan[3].dependencies
        /\ runs[r].subtasks[3].status = "completed"
        /\ runs[r].iterations = 1

\* The outcome of task i of run is among the outcomes os.
Recorded(run, i, os) ==
    \E o \in os :
        /\ o.taskId = run.subtasks[i].id
        /\ o.success = (run.subtasks[i].status = "completed")

\* C20: a task whose worker fails, throws or is missing fails alone.  A
\* step of executeTasks leaves the workflow's status and the statuses of
\* the tasks still with their workers as they are, and ends in the next
\* wait or in the synthesis, never in an error; every task that was
\* started has, once its round has ended, its result recorded and is
\* completed for the scheduler, and before that its outcome is kept.
C20_FailureIsolated ==
    [][\A r \in DOMAIN runs :
          /\ runs[r].pc = "executing"
                => /\ workflows' = workflows
                   /\ runs'[r].pc \in {"executing", "synthesizing"}
                   /\ runs'[r].reply = ""
                   /\ \A j \in runs[r].inflight \cap runs'[r].inflight :
                         runs'[r].subtasks[j] = runs[r].subtasks[j]
                   /\ \A j \in runs[r].inflight \ runs'[r].inflight :
                         runs'[r].subtasks[j].status \in {"completed", "failed"}
          /\ \A i \in DOMAIN runs'[r].subtasks :
                runs'[r].subtasks[i].status \in {"completed", "failed"}
                   => IF i \in runs'[r].round
                      THEN Recorded(runs'[r], i, runs'[r].outcomes)
                      ELSE /\ Recorded(runs'[r], i, runs'[r].results)
                           /\ runs'[r].subtasks[i].id \in runs'[r].completed]_vars

\* Two tasks ran in one round, the first failed and the second completed,
\* and the workflow was synthesized and completed.
C20_Witness ==
    \E r \in DOMAIN runs :
        /\ runs[r].pc = "returned"
        /\ runs[r].reply = "answer"
        /\ runs[r].iterations = 1
        /\ Len(runs[r].subtasks) >= 2
        /\ runs[r].subtasks[1].status = "failed"
        /\ runs[r].subtasks[1].assignedAgent \in Agents
        /\ runs[r].subtasks[2].status = "completed"
        /\ Recorded(runs[r], 1, runs[r].results)
        /\ Recorded(runs[r], 2, runs[r].results)
        /\ workflows[runs[r].wf].status = "completed"

\* Every dependency the plan gives subtask j names a subtask that has
\* completed or failed.
DependenciesTerminal(run, j) ==
    \A k \in DOMAIN run.plan[j].dependencies :
        LET d == run.plan[j].dependencies[k]
        IN  /\ d + 1 \in DOMAIN run.subtasks
            /\ run.subtasks[d + 1].status \in {"completed", "failed"}

\* The worker of task i of run r is suspended in requestPermission.
Suspended(r, i) == \E k \in DOMAIN pending : pending[k].worker = <<r, i>>

\* C21: while the permission request of one task is suspended on the
\* approver, no task whose dependencies have all completed or failed is
\* left waiting: every such task has been started.
C21_SuspensionBlocksNothing ==
    \A r \in DOMAIN runs :
        \A i \in DOMAIN runs[r].subtasks :
            Suspended(r, i)
                => \A j \in DOMAIN runs[r].subtasks :
                      DependenciesTerminal(runs[r], j)
                          => runs[r].subtasks[j].status # "pending"

\* The router's time limit expires for run r in the step.
TimesOut(r) ==
    /\ r \in DOMAIN runs
    /\ ~runs[r].timedOut
    /\ runs'[r].timedOut

\* C22: when the time limit expires before processUserInput has returned,
\* the user is sent the timeout message and the workflow of that call is
\* cancelled, whatever is still in flight.
C22_TimeoutCancels ==
    [][\A r \in DOMAIN runs :
          TimesOut(r)
              => /\ RouterResponse(runs'[r]) = "timeout"
                 /\ workflows'[runs[r].wf].status = "cancelled"]_vars

\* The precedence of a scope: task+site > task > site > global.
ScopeRank(scope) ==
    CASE scope = "task_site" -> 4
      [] scope = "task" -> 3
      [] scope = "site" -> 2
      [] OTHER -> 1

\* C23: the grant check() returns has the highest-precedence scope among
\* the grants that were active and covered the request: no qualifying
\* grant of a higher-precedence scope is passed over.
C23_HighestPrecedence ==
    last.via = "grant" =>
        \A j \in 1..Len(grants) :
            (WasActive(grants[j]) /\ Fits(grants[j], last.req))
                => ScopeRank(grants[j].scope)
                       <= ScopeRank(grants[last.grantId].scope)

\* check() returned a grant although an older qualifying grant of a
\* lower-precedence scope, single-use and still unused, is in the store.
C23_Witness ==
    /\ last.via = "grant"
    /\ \E j \in 1..Len(grants) :
          /\ j < last.grantId
          /\ WasActive(grants[j])
          /\ Fits(grants[j], last.req)
          /\ ScopeRank(grants[j].scope) < ScopeRank(grants[last.grantId].scope)
          /\ grants[j].singleUse
          /\ ~grants[j].used

\* C24: the grant check() returns covers the request: it has the
\* requesting role, at least the requested level, and, by its scope, the
\* request's task (task), its site (site), or both (task+site).
C24_MatchCovers ==
    last.via = "grant" =>
        LET g == grants[last.grantId]
        IN  /\ g.agent = last.req.agent
            /\ g.level >= last.req.level
            /\ g.scope \in {"task", "task_site"} => g.taskId = last.req.taskId
            /\ g.scope \in {"site", "task_site"} => g.domain = last.req.domain

\* check() returned a grant although an older active grant of a scope with
\* higher precedence, made for another task or site, is in the store.
C24_Witness ==
    /\ last.via = "grant"
    /\ \E j \in 1..Len(grants) :
          /\ j < last.grantId
          /\ WasActive(grants[j])
          /\ ~Fits(grants[j], last.req)
          /\ grants[j].agent = last.req.agent
          /\ grants[j].level >= last.req.level
          /\ ScopeRank(grants[j].scope) > ScopeRank(grants[last.grantId].scope)

\* C25: after n calls of log the audit log holds the entries of the most
\* recent min(n, MAX_ENTRIES) calls, unchanged and in the order of the
\* calls, and so never more than MAX_ENTRIES entries.
C25_MostRecentInOrder ==
    LET n == nextId - 1
        kept == IF n < MAX_ENTRIES THEN n ELSE MAX_ENTRIES
    IN  /\ Len(audit) = kept
        /\ Len(audit) <= MAX_ENTRIES
        /\ \A k \in 1..Len(audit) : audit[k] = Logged(n - kept + k)

\* More than MAX_ENTRIES calls were made: the log is full and its oldest
\* entries are gone.
C25_Witness ==
    /\ nextId - 1 > MAX_ENTRIES + 1
    /\ Len(audit) = MAX_ENTRIES
    /\ audit[1] = Logged(nextId - MAX_ENTRIES)
    /\ audit[1] # Logged(1)

\* Concern states of a Guardian: any level, with no count raised, three
\* permission denials, or two consecutive failures.
ConcernStates ==
    {[level |-> ConcernLevels[k], permissionDenialCount |-> n[1],
      consecutiveFailures |-> n[2]] :
        k \in DOMAIN ConcernLevels, n \in {<<0, 0>>, <<3, 0>>, <<0, 2>>}}

OneTimeApproval(g) == g.singleUse /\ g.scope = "task_site"

\* C27: an approval given one time only authorises the approved request
\* and nothing else: no later request is answered allowed through the
\* grant the approval created.
C27_OneTimeOnly ==
    (last.op \in EntryPoints /\ last.via = "grant")
        => ~OneTimeApproval(grants[last.grantId])

\* C28: the approval callback is invoked only for requests within the
\* ceiling of the requesting role: a call that is suspended on the callback,
\* whether it came through requestPermission or through validateAction,
\* asks for a level the policy permits the role.
C28_NoCallbackAboveCeiling ==
    last.op = "suspended" =>
        /\ last.callbacks = 1
        /\ ~AboveCeiling(policy, last.req.agent, last.req.level)

\* With a callback registered, the Gate has refused a request for a level
\* above the role's ceiling that would otherwise need approval, without
\* invoking the callback.
C28_Witness ==
    /\ handler
    /\ last.op = "validateAction"
    /\ AboveCeiling(policy, last.req.agent, last.req.level)
    /\ last.req.level >= INTERACT
    /\ ~last.allowed
    /\ last.callbacks = 0
    /\ pending = <<>>

\* C29: a cancelled workflow stays cancelled: no step changes the status
\* of a workflow that cancelWorkflow, called by the user or after the
\* time limit, has set to cancelled.
C29_CancelledIsFinal ==
    [][\A w \in DOMAIN workflows :
          workflows[w].status = "cancelled"
              => workflows'[w].status = "cancelled"]_vars

\* The step handles a PERMISSION_RESPONSE.
ResponseStep ==
    /\ last' # last
    /\ "requestId" \in DOMAIN last'.resp

\* The escalations that are pending and have request id id.
PendingWith(pend, id) == {i \in DOMAIN pend : pend[i].requestId = id}

\* C30: an escalation is resolved at most once.  A response whose requestId
\* is pending resolves that one suspended request, removes its entry and
\* creates at most one grant; a response whose requestId is not pending,
\* because it was answered before or was never issued, changes nothing.
C30_ResolvedOnce ==
    [][ResponseStep =>
          LET id == last'.resp.requestId
          IN  IF PendingWith(pending, id) # {}
              THEN /\ Cardinality(PendingWith(pending, id)) = 1
                   /\ PendingWith(pending', id) = {}
                   /\ Len(pending') = Len(pending) - 1
                   /\ last'.op # "ignored"
                   /\ Len(grants') <= Len(grants) + 1
              ELSE /\ last'.op = "ignored"
                   /\ UNCHANGED <<now, policy, handler, grants, audit, pending,
                                  spent, orchVars>>]_vars

\* A response was ignored whose requestId had been issued and answered
\* with an approval before: the grant of the first answer is the only one.
C30_Witness ==
    /\ last.op = "ignored"
    /\ last.resp.approved
    /\ \E n \in 1..(nextId - 1) : last.resp.requestId = generateId("esc", n)
    /\ PendingWith(pending, last.resp.requestId) = {}
    /\ Len(grants) = 1
    /\ nextId = 2


\* The requestIds of the prompts in a sequence of them.
Shown(reqs) == {reqs[k] : k \in DOMAIN reqs}

\* C31: a pending escalation stays answerable: after every state sync sent
\* to the approval UI (on connect, on reconnect or for GET_STATE) the UI
\* shows a prompt for each escalation whose request is still suspended.
C31_SyncKeepsPrompts ==
    [][(Connect \/ GetState) =>
          \A i \in DOMAIN pending :
              pending[i].requestId \in Shown(pendingRequests')]_vars


\* The requests that workers have issued and that are suspended on the
\* approver or allowed and acting, each with the task it was issued for.
Issued ==
    {[run |-> pending[k].worker[1], task |-> pending[k].worker[2],
      req |-> pending[k].req] :
         k \in {j \in DOMAIN pending : pending[j].worker # <<>>}}
    \cup UNION {{[run |-> r, task |-> c.task, req |-> c.req] :
                    c \in runs[r].acting} : r \in DOMAIN runs}

\* C32: every permission request a worker issues while it executes task T
\* carries T's id as its taskId, also when two tasks of the same role
\* execute in one round.
C32_RequestCarriesTask ==
    \A q \in Issued : q.req.taskId = runs[q.run].subtasks[q.task].id


\* The step is a call of processUserInput made while a workflow is in
\* progress: the call is rejected.
RejectedCall ==
    /\ workflow # 0
    /\ workflows[workflow].status = "in_progress"
    /\ \E ctx \in PageContexts : ProcessUserInput(ctx, NoGhost, FALSE)

\* C33: a processUserInput call that is rejected because a workflow is in
\* progress changes nothing the active workflow uses: the workflow object,
\* its tasks, and the page context its decomposition and fast path read.
C33_RejectedChangesNothing ==
    [][RejectedCall =>
          UNCHANGED <<workflows, workflow, runs, currentPageContext>>]_vars


\* The tasks of run r that the step hands to their workers.
HandedNow(r) == runs'[r].inflight \ runs[r].inflight

\* C34: after cancelWorkflow has been called on a run's workflow, the
\* scheduler hands no task of the run to a worker that it had not handed
\* over before.
C34_NoDispatchAfterCancel ==
    [][\A r \in DOMAIN runs :
          workflows[runs[r].wf].status = "cancelled" => HandedNow(r) = {}]_vars


\* C35: a grant that requestPermission creates, by auto-grant or for an
\* approved escalation, has scope task+site and the role, level, site and
\* task of the request it was created for; and a request allowed through a
\* grant of the store has that grant's role, site and task and asks for no
\* more than its level.
C35_GrantFitsItsCause ==
    [][/\ Len(grants') > Len(grants) =>
             LET g == grants'[Len(grants')]
             IN  /\ last'.via \in {"auto", "approved"}
                 /\ g.scope = "task_site"
                 /\ g.agent = last'.req.agent
                 /\ g.level = last'.req.level
                 /\ g.domain = last'.req.domain
                 /\ g.taskId = last'.req.taskId
       /\ last'.via = "grant" =>
             LET g == grants'[last'.grantId]
             IN  /\ g.agent = last'.req.agent
                 /\ g.level >= last'.req.level
                 /\ g.domain = last'.req.domain
                 /\ g.taskId = last'.req.taskId]_vars

\* A request escalates although the store holds an unused, unexpired grant
\* of an approved escalation for the same role, level and site: it was
\* approved for another task.
C35_Witness ==
    /\ last.via = "escalated"
    /\ \E j \in 1..Len(grants) :
          /\ grants[j].agent = last.req.agent
          /\ grants[j].level = INTERACT
          /\ grants[j].level >= last.req.level
          /\ grants[j].domain = last.req.domain
          /\ grants[j].taskId # last.req.taskId
          /\ grants[j].revokedAt = Unset
          /\ grants[j].expiresAt > now
          /\ ~grants[j].used


\* The step ends a requestPermission call with a denial: at once, because
\* no approval callback is registered or the request cannot escalate, or
\* on resumption, because the approver denied.
DenialStep ==
    /\ audit' # audit
    /\ last'.op = "requestPermission"
    /\ last'.via = "denied"

\* gs2 is gs with revokedAt = t stamped on grants that had expired at t and
\* were not revoked, and on no other.
OnlyExpiredStamped(gs, gs2, t) ==
    /\ Len(gs2) = Len(gs)
    /\ \A i \in 1..Len(gs) :
          \/ gs2[i] = gs[i]
          \/ /\ gs[i].expiresAt <= t
             /\ gs[i].revokedAt = Unset
             /\ gs2[i] = [gs[i] EXCEPT !.revokedAt = t]

\* C36 as claimed: a requestPermission call that ends with a denial returns
\* not allowed and leaves the grant store as it was.
C36_DenialChangesNoGrant ==
    [][DenialStep => ~last'.allowed /\ grants' = grants]_vars

\* C36 amended: a requestPermission call that ends with a denial returns
\* not allowed, creates no grant and marks none used; the resumption after
\* the approver's denial leaves the store as it was, and the call's first
\* part (which either denies at once or escalates) changes it only by
\* stamping revokedAt on grants that had expired already.
C36_DenialOnlyStampsExpired ==
    [][/\ DenialStep =>
             /\ ~last'.allowed
             /\ OnlyExpiredStamped(grants, grants', now)
             /\ last'.callbacks = 1 => grants' = grants
       /\ (audit' # audit /\ last'.op = "suspended") =>
             OnlyExpiredStamped(grants, grants', now)]_vars

\* With no approval callback registered the first request was denied, and
\* the call stamped a grant that had expired.
C36_Witness ==
    /\ ~handler
    /\ Len(audit) = 1
    /\ last.op = "requestPermission"
    /\ last.via = "denied"
    /\ \E i \in 1..Len(grants) :
          grants[i].expiresAt <= now /\ grants[i].revokedAt = now


\* Grant g is active at time t.
Active(g, t) ==
    /\ g.revokedAt = Unset
    /\ g.expiresAt > t
    /\ ~(g.singleUse /\ g.used)

\* C37: a grant that has become inactive (revoked, expired, or single-use
\* and used) is never active again: every operation keeps the grant in the
\* store, keeps revokedAt set once it is set, keeps used true once it is
\* true, and does not extend expiresAt.
C37_InactiveForGood ==
    [][\A i \in 1..Len(grants) :
          /\ i <= Len(grants')
          /\ grants'[i].id = grants[i].id
          /\ grants[i].revokedAt # Unset => grants'[i].revokedAt # Unset
          /\ grants[i].used => grants'[i].used
          /\ grants'[i].expiresAt <= grants[i].expiresAt
          /\ ~Active(grants[i], now) => ~Active(grants'[i], now')]_vars

\* A single-use grant was used, has expired and was revoked after its
\* expiry: operations went on reaching it after it had become inactive.
C37_Witness ==
    \E i \in 1..Len(grants) :
        /\ grants[i].singleUse
        /\ grants[i].used
        /\ grants[i].expiresAt <= now
        /\ grants[i].revokedAt # Unset
        /\ grants[i].revokedAt >= grants[i].expiresAt


\* The tasks that the plan names as dependencies of task i.
DependencyTasks(run, i) ==
    {j \in DOMAIN run.subtasks :
        \E k \in DOMAIN run.plan[i].dependencies :
            run.plan[i].dependencies[k] = j - 1}

\* Task j has completed with data.
WithData(run, j) ==
    \E o \in run.results : o.taskId = run.subtasks[j].id /\ o.success

C39_GateAndAuthorityAgree ==
    /\ last.via = "ceiling" =>
          AboveCeiling(policy, last.req.agent, last.req.level)
    /\ last.via = "blocked" => isBlocked(policy, last.req.action)
    /\ (last.callbacks = 0 /\ last.via \in {"auto", "denied"}) =>
          ~isBlocked(policy, last.req.action)
    /\ last.op = "suspended" => ~isBlocked(policy, last.req.action)


\* How far a task status is: pending, then in progress, then an end.
StatusRank(status) ==
    CASE status = "pending" -> 0
      [] status = "in_progress" -> 1
      [] OTHER -> 2

\* C40: within a workflow each task is handed to its worker at most once
\* and its status only moves forward: a step hands over only tasks that
\* were pending, no status goes back, and a task that is completed or
\* failed stays as it is.
C40_StatusMovesForward ==
    [][\A r \in DOMAIN runs :
          \A i \in DOMAIN runs[r].subtasks :
              LET was == runs[r].subtasks[i]
                  is == runs'[r].subtasks[i]
              IN  /\ is.id = was.id
                  /\ StatusRank(is.status) >= StatusRank(was.status)
                  /\ StatusRank(was.status) = 2 => is.status = was.status
                  /\ i \in HandedNow(r) => was.status = "pending"
                  /\ was.status = "in_progress" <=> i \in runs[r].inflight]_vars

\* executeTasks has returned after a round that followed the completion of
\* a task: the completed task was not handed over again.
C40_Witness ==
    \E r \in DOMAIN runs :
        /\ runs[r].pc = "synthesizing"
        /\ runs[r].iterations >= 2
        /\ \E i \in DOMAIN runs[r].subtasks :
              runs[r].subtasks[i].status = "completed"
        /\ \E i \in DOMAIN runs[r].subtasks :
              runs[r].subtasks[i].status = "failed"

====
